---------------------------- MODULE Spec2Model ----------------------------
(***************************************************************************)
(* A model of the lunisolar calendar conversion of                         *)
(* src/ports/lunisolar-emcc/lunisolar.c (from_solar_date and its helpers), *)
(* and of the day-grid scans of src/wasm/lunisolar-emcc/ephemeris.c.       *)
(*                                                                         *)
(* Time.  The C code holds instants as doubles in milliseconds.  TLC's     *)
(* integers are 32 bits wide, so every *_ms quantity x of the code is      *)
(* held here as the whole number x / 1000 (one-second resolution); the     *)
(* code's `* 1000.0' and `floor(x / 1000.0)' are exact on such values.     *)
(* Arrays are functions over 0 .. n-1, as in C.                            *)
(***************************************************************************)
EXTENDS Integers, Sequences, FiniteSets, TLC

VARIABLES
    pc,          \* position inside the function that is running
    args,        \* the arguments of the call of from_solar_date
    nm_ms,       \* double *nm_ms, the sorted new moons
    pts,         \* PrincipalTerm *pts (pt_count = its length)
    periods,     \* MonthPeriod *periods (periods_count = its length)
    loc,         \* the scalar locals of from_solar_date
    ret,         \* the value returned
    out_buf,     \* the caller's output buffer
    writes,      \* history: how often each pass wrote each period
    fn_in,       \* the call of one of the other functions
    fn_out,      \* what that call returned
    scan         \* state of a day-grid scan of ephemeris.c

vars == <<pc, args, nm_ms, pts, periods, loc, ret, out_buf, writes, fn_in, fn_out, scan>>

(***************************************************************************)
(* C integer arithmetic: / truncates toward zero, % takes the sign of the  *)
(* dividend.                                                               *)
(***************************************************************************)
CDiv(a, b) == IF a >= 0 THEN a \div b ELSE -((-a) \div b)

CMod(a, b) == a - b * CDiv(a, b)

Abs(x) == IF x < 0 THEN -x ELSE x

Len0(arr) == Cardinality(DOMAIN arr)

ToArr(s) == [k \in 0 .. Len(s) - 1 |-> s[k + 1]]

EmptyArr == ToArr(<<>>)

(***************************************************************************)
(* Date-only helper.                                                       *)
(***************************************************************************)
date_only_compare(a, b) ==
    IF a.y # b.y THEN a.y - b.y
    ELSE IF a.m # b.m THEN a.m - b.m
    ELSE a.d - b.d

within_cst_range(target, start, end) ==
    /\ date_only_compare(start, target) <= 0
    /\ date_only_compare(target, end) < 0

(***************************************************************************)
(* Calendar algorithms (Howard Hinnant).  Each local of the C function is  *)
(* a parameter of the operator that computes the next one.                 *)
(***************************************************************************)
civil_date(yr, m, d) == [y |-> IF m <= 2 THEN yr + 1 ELSE yr, m |-> m, d |-> d]

civil_from_mp(yr, doy, mp) ==
    civil_date(yr, IF mp < 10 THEN mp + 3 ELSE mp - 9, doy - CDiv(153 * mp + 2, 5) + 1)

civil_from_doy(yr, doy) == civil_from_mp(yr, doy, CDiv(5 * doy + 2, 153))

civil_from_yoe(era, doe, yoe) ==
    civil_from_doy(yoe + era * 400, doe - (365 * yoe + CDiv(yoe, 4) - CDiv(yoe, 100)))

civil_from_doe(era, doe) ==
    civil_from_yoe(era, doe,
        CDiv(doe - CDiv(doe, 1460) + CDiv(doe, 36524) - CDiv(doe, 146096), 365))

civil_from_era(z, era) == civil_from_doe(era, z - era * 146097)

\* an era computed by truncating division alone
civil_from_z_truncating(z) == civil_from_era(z, CDiv(z, 146097))

civil_from_z(z) == civil_from_era(z, CDiv(IF z >= 0 THEN z ELSE z - 146096, 146097))

civil_from_days(days) == civil_from_z(days + 719468)

days_from_doe(era, doe) == era * 146097 + doe - 719468

days_from_yoe(era, yoe, doy) ==
    days_from_doe(era, yoe * 365 + CDiv(yoe, 4) - CDiv(yoe, 100) + doy)

days_from_era(yr, era, doy) == days_from_yoe(era, yr - era * 400, doy)

days_from_yr(yr, doy) ==
    days_from_era(yr, CDiv(IF yr >= 0 THEN yr ELSE yr - 399, 400), doy)

days_from_civil(y, m, d) ==
    days_from_yr(IF m <= 2 THEN y - 1 ELSE y,
                 CDiv(153 * (IF m > 2 THEN m - 3 ELSE m + 9) + 2, 5) + d - 1)

(***************************************************************************)
(* Date parts of a UTC instant under an offset.  total_s is floor-divided  *)
(* into a day index and a time of day.                                     *)
(***************************************************************************)
day_epoch_of_truncating(total_s) == CDiv(total_s, 86400)
day_epoch_of(total_s) ==
    IF total_s >= 0 THEN CDiv(total_s, 86400) ELSE CDiv(total_s - 86399, 86400)

tod_of(total_s) ==
    IF total_s >= 0 THEN CMod(total_s, 86400)
    ELSE total_s - day_epoch_of(total_s) * 86400

date_parts(cd, tod) ==
    [y |-> cd.y, m |-> cd.m, d |-> cd.d,
     hour   |-> CDiv(tod, 3600),
     minute |-> CDiv(CMod(tod, 3600), 60),
     second |-> CMod(tod, 60)]

utc_ms_to_date_parts(utc_ms, offset_seconds) ==
    date_parts(civil_from_days(day_epoch_of(utc_ms + offset_seconds)),
               tod_of(utc_ms + offset_seconds))

date_only(p) == [y |-> p.y, m |-> p.m, d |-> p.d]

cst_date_of(utc_ms, cst_offset) == date_only(utc_ms_to_date_parts(utc_ms, cst_offset))

(***************************************************************************)
(* Sexagenary cycle helpers.  Stems and branches are 0-based indices       *)
(* unless the name ends in 1.                                              *)
(***************************************************************************)
MinOf(S) == CHOOSE x \in S : \A y \in S : x <= y

\* a loop that stops at c = 59
cycle_from_stem_branch_short(stem1, branch1) ==
    IF \E c \in 1 .. 59 : (c - 1) % 10 = stem1 - 1 /\ (c - 1) % 12 = branch1 - 1
    THEN MinOf({c \in 1 .. 59 : (c - 1) % 10 = stem1 - 1 /\ (c - 1) % 12 = branch1 - 1})
    ELSE 1

\* the loop over c = 1 .. 60 returns the first c that fits, else 1
cycle_from_stem_branch(stem1, branch1) ==
    IF \E c \in 1 .. 60 : (c - 1) % 10 = stem1 - 1 /\ (c - 1) % 12 = branch1 - 1
    THEN MinOf({c \in 1 .. 60 : (c - 1) % 10 = stem1 - 1 /\ (c - 1) % 12 = branch1 - 1})
    ELSE 1

bazi_ganzhi_from_cycle(cycle, old) ==
    IF cycle < 1 \/ cycle > 60 THEN old
    ELSE [stem_idx |-> (cycle - 1) % 10, branch_idx |-> (cycle - 1) % 12]

\* *stem_idx, *branch_idx and *cycle as year_ganzhi and day_ganzhi set them
pillar_of_cycle(c) ==
    [stem_idx |-> (c - 1) % 10, branch_idx |-> (c - 1) % 12, cycle |-> c]

year_cycle(yc) == IF yc <= 0 THEN yc + 60 ELSE yc

year_ganzhi(lunar_year) == pillar_of_cycle(year_cycle(CMod(lunar_year - 4, 60) + 1))

\* a switch whose first case gives an even stem
month_first_stem_even(year_stem_idx1) ==
    CASE year_stem_idx1 \in {1, 6}  -> 4
      [] year_stem_idx1 \in {2, 7}  -> 5
      [] year_stem_idx1 \in {3, 8}  -> 7
      [] year_stem_idx1 \in {4, 9}  -> 9
      [] year_stem_idx1 \in {5, 10} -> 1
      [] OTHER                      -> 3

\* the switch on the 1-based year stem that gives the stem of month 1
month_first_stem(year_stem_idx1) ==
    CASE year_stem_idx1 \in {1, 6}  -> 3
      [] year_stem_idx1 \in {2, 7}  -> 5
      [] year_stem_idx1 \in {3, 8}  -> 7
      [] year_stem_idx1 \in {4, 9}  -> 9
      [] year_stem_idx1 \in {5, 10} -> 1
      [] OTHER                      -> 3

\* *stem_idx, *branch_idx and *cycle from a 1-based stem and branch
pillar_of_pair(stem1, branch1) ==
    [stem_idx |-> stem1 - 1, branch_idx |-> branch1 - 1,
     cycle |-> cycle_from_stem_branch(stem1, branch1)]

month_branch1(lunar_month) ==
    IF (lunar_month + 2) % 12 = 0 THEN 12 ELSE (lunar_month + 2) % 12

month_ganzhi(lunar_year, lunar_month) ==
    pillar_of_pair(
        ((month_first_stem(year_ganzhi(lunar_year).stem_idx + 1) - 1
            + (lunar_month - 1)) % 10) + 1,
        month_branch1(lunar_month))

day_cycle(diff) == CMod(CMod(diff, 60) + 60, 60) + 1

day_ganzhi(timestamp_ms) ==
    pillar_of_cycle(day_cycle(day_epoch_of(timestamp_ms) - days_from_civil(4, 1, 31)))

\* the switch on the day stem that gives the stem of the Zi hour
zi_hour_stem(day_stem) ==
    CASE day_stem \in {0, 5} -> 0
      [] day_stem \in {1, 6} -> 2
      [] day_stem \in {2, 7} -> 4
      [] day_stem \in {3, 8} -> 6
      [] day_stem \in {4, 9} -> 8
      [] OTHER               -> 0

\* bi0 from decimal = hour + minute / 60.0, held as dec60 = 60 * decimal
hour_branch0(dec60) ==
    IF dec60 >= 23 * 60 \/ dec60 < 60 THEN 0
    ELSE IF ((dec60 - 60) \div 120) + 1 >= 12 THEN 11
    ELSE ((dec60 - 60) \div 120) + 1

hour_day_stem_same_day(hour, base_day_stem) == base_day_stem
hour_day_stem(hour, base_day_stem) ==
    IF hour >= 23 THEN (base_day_stem + 1) % 10 ELSE base_day_stem

hour_pillar(day_stem, bi1) ==
    pillar_of_pair(((zi_hour_stem(day_stem) + (bi1 - 1)) % 10) + 1, bi1)

hour_of_tod(tod, base_day_stem) ==
    hour_pillar(hour_day_stem(CDiv(tod, 3600), base_day_stem),
                hour_branch0(60 * CDiv(tod, 3600) + CDiv(CMod(tod, 3600), 60)) + 1)

hour_ganzhi(local_wall_ms, base_day_stem) ==
    hour_of_tod(tod_of(local_wall_ms), base_day_stem)

(***************************************************************************)
(* from_solar_date: sorting and the construction of pts and periods.       *)
(***************************************************************************)
\* the inner while loop of the insertion sorts: the index the key is put after
RECURSIVE insert_pos(_, _, _)
insert_pos(a, key, j) ==
    IF j >= 1 /\ a[j].key > key THEN insert_pos(a, key, j - 1) ELSE j

\* one iteration of the outer for loop: a[i] is moved down into a[1 .. i-1]
insert_step(a, i) ==
    LET j == insert_pos(a, a[i].key, i - 1)
    IN  SubSeq(a, 1, j) \o <<a[i]>> \o SubSeq(a, j + 1, i - 1)
            \o SubSeq(a, i + 1, Len(a))

\* the outer for loop of the insertion sorts, over a sequence of [key, val]
RECURSIVE insertion_sort(_, _)
insertion_sort(a, i) ==
    IF i > Len(a) THEN a
    ELSE insertion_sort(insert_step(a, i), i + 1)

Vals(sorted) == ToArr([k \in 1 .. Len(sorted) |-> sorted[k].val])

sort_new_moons(new_moons) ==
    Vals(insertion_sort([k \in 1 .. Len(new_moons) |->
                            [key |-> new_moons[k], val |-> new_moons[k]]], 2))

\* solar-term index (0..23, even = principal) to principal-term number 1..12
principal_term_index(idx) ==
    LET raw == (idx \div 2) + 2
    IN  IF raw > 12 THEN raw - 12 ELSE raw

principal_term(ts, idx, cst_offset) ==
    [instant_utc_ms |-> ts,
     cst_date       |-> cst_date_of(ts, cst_offset),
     term_index     |-> principal_term_index(idx)]

build_principal_terms(solar_terms_ts, solar_terms_idx, cst_offset) ==
    LET keep  == SelectSeq([k \in 1 .. Len(solar_terms_ts) |-> k],
                           LAMBDA k : solar_terms_idx[k] % 2 = 0)
        built == [n \in 1 .. Len(keep) |->
                     [key |-> solar_terms_ts[keep[n]],
                      val |-> principal_term(solar_terms_ts[keep[n]],
                                             solar_terms_idx[keep[n]], cst_offset)]]
    IN  Vals(insertion_sort(built, 2))

build_periods(nm, cst_offset) ==
    [i \in 0 .. Len0(nm) - 2 |->
        [start_utc_ms  |-> nm[i],
         end_utc_ms    |-> nm[i + 1],
         start_cst     |-> cst_date_of(nm[i], cst_offset),
         end_cst       |-> cst_date_of(nm[i + 1], cst_offset),
         has_principal |-> 0,
         is_leap       |-> 0,
         month_number  |-> 0]]

\* the first period whose [start_cst, end_cst) holds the date, or -1
first_period_within(ps, date) ==
    LET hits == {p \in DOMAIN ps :
                    /\ within_cst_range(date, ps[p].start_cst, ps[p].end_cst)
                    /\ \A q \in 0 .. p - 1 :
                          ~within_cst_range(date, ps[q].start_cst, ps[q].end_cst)}
    IN  IF hits = {} THEN -1 ELSE CHOOSE p \in hits : TRUE

\* the two nested loops that tag: period p is tagged when it is the first
\* period that holds the date of some term
tag_principal_terms(ps, terms) ==
    [p \in DOMAIN ps |->
        IF \E t \in DOMAIN terms :
              /\ within_cst_range(terms[t].cst_date, ps[p].start_cst, ps[p].end_cst)
              /\ \A q \in 0 .. p - 1 :
                    ~within_cst_range(terms[t].cst_date, ps[q].start_cst, ps[q].end_cst)
        THEN [ps[p] EXCEPT !.has_principal = 1]
        ELSE ps[p]]

(***************************************************************************)
(* from_solar_date: the Winter Solstice (Z11) and the anchor.              *)
(***************************************************************************)
utc_year_of(utc_ms) == utc_ms_to_date_parts(utc_ms, 0).y

RECURSIVE z11_scan(_, _, _, _)
z11_scan(terms, i, best, local_year) ==
    IF i >= Len0(terms) THEN best
    ELSE IF terms[i].term_index # 11 THEN z11_scan(terms, i + 1, best, local_year)
    ELSE LET ty == utc_year_of(terms[i].instant_utc_ms)
         IN  IF ty = local_year THEN i
             ELSE IF best < 0 THEN z11_scan(terms, i + 1, i, local_year)
             ELSE LET cy == utc_year_of(terms[best].instant_utc_ms)
                  IN  IF Abs(ty - local_year) < Abs(cy - local_year)
                      THEN z11_scan(terms, i + 1, i, local_year)
                      ELSE z11_scan(terms, i + 1, best, local_year)

\* an anchor that is always the reference solstice
anchor_of_no_fallback(terms, z11_best, timestamp_ms, local_year) ==
    terms[z11_best].instant_utc_ms

anchor_of(terms, z11_best, timestamp_ms, local_year) ==
    IF timestamp_ms >= terms[z11_best].instant_utc_ms
    THEN terms[z11_best].instant_utc_ms
    ELSE LET prev == {i \in DOMAIN terms :
                         /\ terms[i].term_index = 11
                         /\ utc_year_of(terms[i].instant_utc_ms) = local_year - 1}
         IN  IF prev = {} THEN terms[z11_best].instant_utc_ms
             ELSE terms[MinOf(prev)].instant_utc_ms

find_zi_index(ps, anchor_ms) ==
    LET hits == {i \in DOMAIN ps :
                    ps[i].start_utc_ms <= anchor_ms /\ anchor_ms < ps[i].end_utc_ms}
    IN  IF hits = {} THEN -1 ELSE MinOf(hits)

(***************************************************************************)
(* from_solar_date: the two numbering passes.                              *)
(***************************************************************************)
\* a forward loop that starts on the anchor period itself
forward_from_anchor(zi_index) == zi_index

\* for (int i = zi_index + 1; i < periods_count; i++)
forward_first(zi_index) == zi_index + 1

forward_continues(i, periods_count) == i < periods_count

\* for (int i = zi_index - 1; i >= 0; i--)
backward_first(zi_index) == zi_index - 1

\* a backward loop that stops before period 0
backward_stops_early(i) == i > 0

backward_continues(i) == i >= 0

\* body of the forward loop: the new counter and the period as written
\* (the first variant counts on past 12)
forward_body_no_wrap(p, current) ==
    IF p.has_principal = 1
    THEN LET c == current + 1
         IN  [current |-> c,
              period  |-> [p EXCEPT !.month_number = c, !.is_leap = 0]]
    ELSE [current |-> current,
          period  |-> [p EXCEPT !.month_number = current, !.is_leap = 1]]

forward_body(p, current) ==
    IF p.has_principal = 1
    THEN LET c == (current % 12) + 1
         IN  [current |-> c,
              period  |-> [p EXCEPT !.month_number = c, !.is_leap = 0]]
    ELSE [current |-> current,
          period  |-> [p EXCEPT !.month_number = current, !.is_leap = 1]]

\* body of the backward loop
backward_body(p, current) ==
    LET c == IF current > 1 THEN current - 1 ELSE 12
    IN  IF p.has_principal = 1
        THEN [current |-> c,
              period  |-> [p EXCEPT !.month_number = c, !.is_leap = 0]]
        ELSE [current |-> c,
              period  |-> [p EXCEPT !.month_number = c, !.is_leap = 1]]

(***************************************************************************)
(* from_solar_date: the result and its serialisation.                      *)
(***************************************************************************)
lunar_day_of_zero_based(tp, target_cst) ==
    LET start_days == days_from_civil(tp.start_cst.y, tp.start_cst.m, tp.start_cst.d)
        tgt_days   == days_from_civil(target_cst.y, target_cst.m, target_cst.d)
        raw        == tgt_days - start_days
    IN  IF raw < 1 THEN 1 ELSE IF raw > 30 THEN 30 ELSE raw

lunar_day_of(tp, target_cst) ==
    LET start_days == days_from_civil(tp.start_cst.y, tp.start_cst.m, tp.start_cst.d)
        tgt_days   == days_from_civil(target_cst.y, target_cst.m, target_cst.d)
        raw        == tgt_days - start_days + 1
    IN  IF raw < 1 THEN 1 ELSE IF raw > 30 THEN 30 ELSE raw

lunar_year_of(tp) ==
    LET ps == utc_ms_to_date_parts(tp.start_utc_ms, 0)
    IN  IF tp.month_number <= 11 THEN ps.y
        ELSE IF ps.m <= 2 THEN ps.y - 1
        ELSE ps.y

wall_ms_of(timestamp_ms, tz_offset_seconds) ==
    LET w == utc_ms_to_date_parts(timestamp_ms, tz_offset_seconds)
    IN  days_from_civil(w.y, w.m, w.d) * 86400
            + w.hour * 3600 + w.minute * 60 + w.second

BUILDING_BRANCH == <<2, 3, 4, 5, 6, 7, 8, 9, 10, 11, 0, 1>>

AZURE_START == <<0, 2, 4, 6, 8, 10, 0, 2, 4, 6, 8, 10>>

\* everything snprintf is handed, as a record
conversion_result(tp, timestamp_ms, tz_offset_seconds) ==
    LET target_cst == cst_date_of(timestamp_ms, tz_offset_seconds)
        lunar_year == lunar_year_of(tp)
        wall_ms    == wall_ms_of(timestamp_ms, tz_offset_seconds)
        dg         == day_ganzhi(wall_ms)
    IN  [lunarYear   |-> lunar_year,
         lunarMonth  |-> tp.month_number,
         lunarDay    |-> lunar_day_of(tp, target_cst),
         isLeapMonth |-> tp.is_leap # 0,
         year        |-> year_ganzhi(lunar_year),
         month       |-> month_ganzhi(lunar_year, tp.month_number),
         day         |-> dg,
         hour        |-> hour_ganzhi(wall_ms, dg.stem_idx),
         cs_idx      |-> (CMod(dg.branch_idx - BUILDING_BRANCH[tp.month_number], 12) + 12) % 12,
         gyp_idx     |-> (CMod(dg.branch_idx - AZURE_START[tp.month_number], 12) + 12) % 12]

\* characters printf writes for an integer under %d or %u
RECURSIVE dec_len(_)
dec_len(n) ==
    IF n < 0 THEN 1 + dec_len(-n)
    ELSE IF n < 10 THEN 1
    ELSE 1 + dec_len(n \div 10)

\* the length of the JSON text: 281 bytes of fixed text, the numbers, true or
\* false, eight 3-byte stems and branches, the 3-byte construction star, the
\* 6-byte spirit and the 6-byte path type
json_length(r) ==
    281 + dec_len(r.lunarYear) + dec_len(r.lunarMonth) + dec_len(r.lunarDay)
        + (IF r.isLeapMonth THEN 4 ELSE 5)
        + 8 * 3 + dec_len(r.year.cycle) + dec_len(r.month.cycle)
        + dec_len(r.day.cycle) + dec_len(r.hour.cycle)
        + 3 + 6 + 6

\* snprintf(buf, size, ...) of a text of n bytes: what the buffer holds after
snprintf_into(buf, size, n) ==
    IF size <= 0 THEN buf
    ELSE [touched |-> TRUE,
          stored  |-> IF n < size THEN n ELSE size - 1,
          full    |-> n < size]

\* the value from_solar_date returns after serialising a text of n bytes
serialise_return(n, out_buf_len) == n

(***************************************************************************)
(* The calls of from_solar_date that are explored.  New moons lie one mean *)
(* synodic month apart and principal terms a twelfth of a year apart,      *)
(* around one Winter Solstice; moon 0 is the new moon next to it.          *)
(***************************************************************************)
MoonSpan == 14

TermSpan == 13

WinterSolstice0 == 20078 * 86400 + 33600      \* 2024-12-21 09:20:00 UTC

PrincipalStep == 30 * 86400 + 37800           \* 365.25 days / 12

SynodicMonth == 29 * 86400 + 45843

\* moon 0 relative to the solstice: later the same UTC day, earlier the same
\* UTC day, twelve days before
MoonPhases == {18000, -18000, -12 * 86400}

MoonWindows ==
    {<<-MoonSpan, 2>>, <<1 - MoonSpan, 1>>, <<-3, 2>>, <<0, 3>>, <<0, 1>>,
     <<0, 0>>, <<1, 0>>}

Variants == {"sorted", "reversed", "noZ11", "noTerms"}

Offsets == {0, 28800, -18000}

BufLens == {0, 64, 512}

Queries ==
    {WinterSolstice0, WinterSolstice0 - 12 * PrincipalStep, WinterSolstice0 - 1,
     WinterSolstice0 - 180 * 86400, WinterSolstice0 + 20 * 86400,
     WinterSolstice0 + 200 * 86400}

Reverse(s) == [k \in 1 .. Len(s) |-> s[Len(s) + 1 - k]]

MoonsOf(phase, w) ==
    [k \in 1 .. (w[2] - w[1] + 1) |->
        WinterSolstice0 + phase + (w[1] + k - 1) * SynodicMonth]

\* principal terms -TermSpan .. 2 around the solstice (index 18), then two
\* sectional terms (odd indices)
TermsOf ==
    [k \in 1 .. TermSpan + 3 |->
        LET j == k - 1 - TermSpan
        IN  [ts |-> WinterSolstice0 + j * PrincipalStep, idx |-> (18 + 2 * j) % 24]]
    \o <<[ts |-> WinterSolstice0 - PrincipalStep \div 2, idx |-> 17],
         [ts |-> WinterSolstice0 + PrincipalStep \div 2, idx |-> 19]>>

TermsFor(variant) ==
    CASE variant = "sorted"   -> TermsOf
      [] variant = "reversed" -> Reverse(TermsOf)
      [] variant = "noZ11"    -> SelectSeq(TermsOf, LAMBDA t : t.idx # 18)
      [] variant = "noTerms"  -> <<>>

CallOf(q, tz, len, phase, w, variant) ==
    LET moons == MoonsOf(phase, w)
        terms == TermsFor(variant)
    IN  [timestamp_ms      |-> q,
         tz_offset_seconds |-> tz,
         new_moons         |-> IF variant = "reversed" THEN Reverse(moons) ELSE moons,
         solar_terms_ts    |-> [k \in 1 .. Len(terms) |-> terms[k].ts],
         solar_terms_idx   |-> [k \in 1 .. Len(terms) |-> terms[k].idx],
         out_buf_len       |-> len]

Calls ==
    {CallOf(q, tz, len, phase, w, variant) :
        q \in Queries, tz \in Offsets, len \in BufLens,
        phase \in MoonPhases, w \in MoonWindows, variant \in Variants}

(***************************************************************************)
(* from_solar_date as a state machine: one action per stage, one per       *)
(* iteration of a numbering pass.                                          *)
(***************************************************************************)
NoLocals ==
    [local_year |-> 0, z11_best |-> -1, anchor_ms |-> 0, zi_index |-> -1,
     current |-> 0, i |-> 0, target_idx |-> -1, result |-> <<>>]

FreshBuffer == [touched |-> FALSE, stored |-> 0, full |-> FALSE]

NoScan == [phase |-> "idle"]

OthersIdle == fn_in = <<>> /\ fn_out = <<>> /\ scan = NoScan

Init ==
    /\ args \in Calls
    /\ pc = "start"
    /\ nm_ms = EmptyArr
    /\ pts = EmptyArr
    /\ periods = EmptyArr
    /\ loc = NoLocals
    /\ ret = <<>>
    /\ out_buf = FreshBuffer
    /\ writes = EmptyArr
    /\ OthersIdle

Fail ==
    /\ ret' = <<-1>>
    /\ pc' = "done"

\* lines 319-346: the local year and the sorted new moons
Begin ==
    /\ pc = "start"
    /\ loc' = [loc EXCEPT !.local_year =
                  utc_ms_to_date_parts(args.timestamp_ms, args.tz_offset_seconds).y]
    /\ IF Len(args.new_moons) < 2
       THEN Fail /\ UNCHANGED nm_ms
       ELSE /\ nm_ms' = sort_new_moons(args.new_moons)
            /\ pc' = "pts"
            /\ UNCHANGED ret
    /\ UNCHANGED <<args, pts, periods, out_buf, writes, fn_in, fn_out, scan>>

\* lines 348-373
BuildPrincipalTerms ==
    /\ pc = "pts"
    /\ pts' = build_principal_terms(args.solar_terms_ts, args.solar_terms_idx,
                                    args.tz_offset_seconds)
    /\ pc' = "periods"
    /\ UNCHANGED <<args, nm_ms, periods, loc, ret, out_buf, writes, fn_in, fn_out, scan>>

\* lines 375-387
BuildPeriods ==
    /\ pc = "periods"
    /\ periods' = build_periods(nm_ms, args.tz_offset_seconds)
    /\ writes' = [p \in 0 .. Len0(nm_ms) - 2 |-> [anchor |-> 0, fwd |-> 0, bwd |-> 0]]
    /\ pc' = "tag"
    /\ UNCHANGED <<args, nm_ms, pts, loc, ret, out_buf, fn_in, fn_out, scan>>

\* lines 389-399
TagPrincipal ==
    /\ pc = "tag"
    /\ periods' = tag_principal_terms(periods, pts)
    /\ pc' = "z11"
    /\ UNCHANGED <<args, nm_ms, pts, loc, ret, out_buf, writes, fn_in, fn_out, scan>>

\* lines 401-433
FindZ11 ==
    /\ pc = "z11"
    /\ LET best == z11_scan(pts, 0, -1, loc.local_year)
       IN  IF best < 0
           THEN Fail /\ loc' = [loc EXCEPT !.z11_best = best]
           ELSE /\ loc' = [loc EXCEPT !.z11_best = best,
                                      !.anchor_ms = anchor_of(pts, best, args.timestamp_ms,
                                                              loc.local_year)]
                /\ pc' = "zi"
                /\ UNCHANGED ret
    /\ UNCHANGED <<args, nm_ms, pts, periods, out_buf, writes, fn_in, fn_out, scan>>

\* an anchor search whose failure is not looked at
zi_never_missing(zi_index) == FALSE

\* if (zi_index < 0) { ... return -1; }
zi_missing(zi_index) == zi_index < 0

\* lines 435-449
FindZi ==
    /\ pc = "zi"
    /\ LET zi == find_zi_index(periods, loc.anchor_ms)
       IN  IF zi_missing(zi)
           THEN Fail /\ loc' = [loc EXCEPT !.zi_index = zi] /\ UNCHANGED <<periods, writes>>
           ELSE /\ loc' = [loc EXCEPT !.zi_index = zi, !.current = 11,
                                      !.i = forward_first(zi)]
                /\ periods' = [p \in DOMAIN periods |->
                                  IF p = zi
                                  THEN [periods[p] EXCEPT !.month_number = 11, !.is_leap = 0]
                                  ELSE periods[p]]
                /\ writes' = [p \in DOMAIN writes |->
                                 IF p = zi THEN [writes[p] EXCEPT !.anchor = @ + 1]
                                 ELSE writes[p]]
                /\ pc' = "forward"
                /\ UNCHANGED ret
    /\ UNCHANGED <<args, nm_ms, pts, out_buf, fn_in, fn_out, scan>>

\* lines 450-459: one iteration
ForwardStep ==
    /\ pc = "forward"
    /\ forward_continues(loc.i, Len0(periods))
    /\ loc.i \in DOMAIN periods
    /\ LET b == forward_body(periods[loc.i], loc.current)
       IN  /\ periods' = [periods EXCEPT ![loc.i] = b.period]
           /\ loc' = [loc EXCEPT !.current = b.current, !.i = @ + 1]
    /\ writes' = [writes EXCEPT ![loc.i].fwd = @ + 1]
    /\ UNCHANGED <<pc, args, nm_ms, pts, ret, out_buf, fn_in, fn_out, scan>>

\* lines 450 and 462-464: the forward loop ends, the backward one is set up
ForwardEnd ==
    /\ pc = "forward"
    /\ ~forward_continues(loc.i, Len0(periods))
    /\ IF loc.zi_index > 0
       THEN /\ loc' = [loc EXCEPT !.current = 11, !.i = backward_first(loc.zi_index)]
            /\ pc' = "backward"
       ELSE /\ pc' = "target"
            /\ UNCHANGED loc
    /\ UNCHANGED <<args, nm_ms, pts, periods, ret, out_buf, writes, fn_in, fn_out, scan>>

\* lines 464-473: one iteration
BackwardStep ==
    /\ pc = "backward"
    /\ backward_continues(loc.i)
    /\ loc.i \in DOMAIN periods
    /\ LET b == backward_body(periods[loc.i], loc.current)
       IN  /\ periods' = [periods EXCEPT ![loc.i] = b.period]
           /\ loc' = [loc EXCEPT !.current = b.current, !.i = @ - 1]
    /\ writes' = [writes EXCEPT ![loc.i].bwd = @ + 1]
    /\ UNCHANGED <<pc, args, nm_ms, pts, ret, out_buf, fn_in, fn_out, scan>>

BackwardEnd ==
    /\ pc = "backward"
    /\ ~backward_continues(loc.i)
    /\ pc' = "target"
    /\ UNCHANGED <<args, nm_ms, pts, periods, loc, ret, out_buf, writes, fn_in, fn_out, scan>>

\* lines 476-485
FindTarget ==
    /\ pc = "target"
    /\ LET t == first_period_within(periods,
                    cst_date_of(args.timestamp_ms, args.tz_offset_seconds))
       IN  /\ loc' = [loc EXCEPT !.target_idx = t]
           /\ IF t < 0 THEN Fail ELSE pc' = "emit" /\ UNCHANGED ret
    /\ UNCHANGED <<args, nm_ms, pts, periods, out_buf, writes, fn_in, fn_out, scan>>

\* lines 487-563
Emit ==
    /\ pc = "emit"
    /\ \E r \in {conversion_result(periods[loc.target_idx], args.timestamp_ms,
                                    args.tz_offset_seconds)} :
           /\ loc' = [loc EXCEPT !.result = <<r>>]
           /\ out_buf' = snprintf_into(out_buf, args.out_buf_len, json_length(r))
           /\ ret' = <<serialise_return(json_length(r), args.out_buf_len)>>
    /\ pc' = "done"
    /\ UNCHANGED <<args, nm_ms, pts, periods, writes, fn_in, fn_out, scan>>

Next ==
    \/ Begin
    \/ BuildPrincipalTerms
    \/ BuildPeriods
    \/ TagPrincipal
    \/ FindZ11
    \/ FindZi
    \/ ForwardStep
    \/ ForwardEnd
    \/ BackwardStep
    \/ BackwardEnd
    \/ FindTarget
    \/ Emit

Spec == Init /\ [][Next]_vars

(***************************************************************************)
(* Properties of from_solar_date.                                          *)
(***************************************************************************)
\* both numbering passes have run
Assembled == loc.zi_index >= 0 /\ pc \in {"target", "emit", "done"}

Returned == pc = "done" /\ ret # <<>>

\* C1: once the anchor period is found, and so after both numbering passes,
\* the period that holds the anchor instant has month_number 11 and is_leap
\* false, and it was written once, by the anchor assignment: neither the
\* forward nor the backward pass writes it.
C1_AnchorKept ==
    (loc.zi_index >= 0 /\ pc \in {"forward", "backward", "target", "emit", "done"})
        => /\ loc.zi_index \in DOMAIN periods
           /\ periods[loc.zi_index].start_utc_ms <= loc.anchor_ms
           /\ loc.anchor_ms < periods[loc.zi_index].end_utc_ms
           /\ periods[loc.zi_index].month_number = 11
           /\ periods[loc.zi_index].is_leap = 0
           /\ writes[loc.zi_index] = [anchor |-> 1, fwd |-> 0, bwd |-> 0]

\* both passes ran over at least one period and left the anchor between them
C1_Witness ==
    /\ pc = "target"
    /\ loc.zi_index > 0
    /\ loc.zi_index < Len0(periods) - 1
    /\ writes[loc.zi_index - 1].bwd = 1
    /\ writes[loc.zi_index + 1].fwd = 1
    /\ periods[loc.zi_index].month_number = 11

\* C2: after both passes every period other than the anchor period has been
\* written by exactly one of the forward pass and the backward pass, exactly
\* once, no period keeps month_number 0 and every month_number is in 1..12.
C2_OnePassEach ==
    Assembled
        => \A p \in DOMAIN periods :
              /\ periods[p].month_number \in 1 .. 12
              /\ p # loc.zi_index
                    => /\ writes[p].anchor = 0
                       /\ writes[p].fwd + writes[p].bwd = 1
                       /\ writes[p].fwd = (IF p > loc.zi_index THEN 1 ELSE 0)

\* a finished conversion over at least four periods with the anchor inside
C2_Witness ==
    /\ Returned
    /\ ret[1] >= 0
    /\ Len0(periods) >= 4
    /\ loc.zi_index > 0
    /\ loc.zi_index < Len0(periods) - 1
    /\ \A p \in DOMAIN periods : periods[p].month_number \in 1 .. 12

\* C3: after month assembly every period, the anchor period included, is
\* flagged leap exactly when no principal term was tagged in it.
C3_LeapIffNoPrincipal ==
    Assembled
        => \A p \in DOMAIN periods : periods[p].is_leap = 1 - periods[p].has_principal

\* the query instant is the instant of a Winter Solstice of the solar terms
QueryIsWinterSolstice ==
    \E k \in DOMAIN args.solar_terms_ts :
        /\ args.solar_terms_idx[k] = 18
        /\ args.solar_terms_ts[k] = args.timestamp_ms

\* C4: a conversion whose query is a Winter-Solstice instant of the data
\* set, when it succeeds, yields lunarMonth 11, isLeapMonth false and
\* lunarDay in 1..30, whatever the UTC offset.
C4_SolsticeIsMonth11 ==
    (Returned /\ ret[1] >= 0 /\ QueryIsWinterSolstice)
        => /\ loc.result[1].lunarMonth = 11
           /\ loc.result[1].isLeapMonth = FALSE
           /\ loc.result[1].lunarDay \in 1 .. 30

MinMoon == MinOf({args.new_moons[k] : k \in DOMAIN args.new_moons})

MaxMoon == -MinOf({-args.new_moons[k] : k \in DOMAIN args.new_moons})

TooFewMoons == Len(args.new_moons) < 2

NoWinterSolstice == \A k \in DOMAIN args.solar_terms_idx : args.solar_terms_idx[k] # 18

AnchorOutside == ~(MinMoon <= loc.anchor_ms /\ loc.anchor_ms < MaxMoon)

QueryDateOutside ==
    ~within_cst_range(cst_date_of(args.timestamp_ms, args.tz_offset_seconds),
                      cst_date_of(MinMoon, args.tz_offset_seconds),
                      cst_date_of(MaxMoon, args.tz_offset_seconds))

MustFail ==
    \/ TooFewMoons
    \/ NoWinterSolstice
    \/ AnchorOutside
    \/ QueryDateOutside

CompleteResult ==
    /\ loc.result # <<>>
    /\ loc.result[1].lunarMonth \in 1 .. 12
    /\ loc.result[1].lunarDay \in 1 .. 30
    /\ loc.result[1].isLeapMonth \in BOOLEAN
    /\ \A f \in {"year", "month", "day", "hour"} : loc.result[1][f].cycle \in 1 .. 60
    /\ loc.result[1].cs_idx \in 0 .. 11
    /\ loc.result[1].gyp_idx \in 0 .. 11

\* C8: from_solar_date returns -1 exactly when fewer than 2 new moons are
\* given, no Winter Solstice is among the solar terms, the anchor instant is
\* in no period or the local date of the query is in no period; on -1
\* nothing was written to out_buf, and a non-negative value is returned only
\* after the whole result was computed.
C8_FailureCases ==
    Returned
        => /\ (ret[1] = -1) <=> MustFail
           /\ ret[1] = -1 => out_buf = FreshBuffer /\ loc.result = <<>>
           /\ ret[1] # -1 => ret[1] >= 0 /\ CompleteResult

\* a failure because the anchor instant is in no period, with a buffer that
\* would have held the result
C8_Witness ==
    /\ Returned
    /\ ret[1] = -1
    /\ ~TooFewMoons
    /\ ~NoWinterSolstice
    /\ AnchorOutside
    /\ ~QueryDateOutside
    /\ args.out_buf_len > 0
    /\ out_buf = FreshBuffer

\* C9: when out_buf is too small for the text of the result, from_solar_date
\* returns the failure value.
C9_SmallBufferFails ==
    (Returned /\ loc.result # <<>> /\ json_length(loc.result[1]) >= args.out_buf_len)
        => ret[1] = -1

QueryDate == cst_date_of(args.timestamp_ms, args.tz_offset_seconds)

\* days from 1970-01-01 to the date
DayNumber(date) == days_from_civil(date.y, date.m, date.d)

Clamp30(n) == IF n < 1 THEN 1 ELSE IF n > 30 THEN 30 ELSE n

\* C19: in a conversion that produced a result the target period is the
\* first period whose [start_cst, end_cst) holds the local date of the query,
\* and lunarDay is 1 + (day number of that date - day number of the period's
\* start_cst) clamped to 1..30: it is 1 on the local date of the period's
\* new moon and, below the clamp, grows by one with each later date of the
\* period.
C19_LunarDayFromPeriodStart ==
    (Returned /\ loc.result # <<>>)
        => /\ loc.target_idx \in DOMAIN periods
           /\ date_only_compare(periods[loc.target_idx].start_cst, QueryDate) <= 0
           /\ date_only_compare(QueryDate, periods[loc.target_idx].end_cst) < 0
           /\ \A q \in 0 .. loc.target_idx - 1 :
                 \/ date_only_compare(periods[q].start_cst, QueryDate) > 0
                 \/ date_only_compare(QueryDate, periods[q].end_cst) >= 0
           /\ loc.result[1].lunarDay =
                 Clamp30(1 + DayNumber(QueryDate) - DayNumber(periods[loc.target_idx].start_cst))
           /\ QueryDate = periods[loc.target_idx].start_cst => loc.result[1].lunarDay = 1
           /\ DayNumber(QueryDate) - DayNumber(periods[loc.target_idx].start_cst) \in 0 .. 29
                 => loc.result[1].lunarDay - 1 =
                        DayNumber(QueryDate) - DayNumber(periods[loc.target_idx].start_cst)

\* a result for a query some days into a period that is not the first
C19_Witness ==
    /\ Returned
    /\ loc.result # <<>>
    /\ loc.target_idx > 0
    /\ loc.result[1].lunarDay > 1
    /\ loc.result[1].lunarDay < 30

\* C20: after the forward pass, for consecutive periods i, i + 1 with i at or
\* after the anchor period: a period i + 1 with a principal term has
\* month_number (month_number of i % 12) + 1 and is not leap; a period i + 1
\* without one has the month_number of period i and is leap.
C20_ForwardNumbering ==
    Assembled
        => \A i \in loc.zi_index .. Len0(periods) - 2 :
              IF periods[i + 1].has_principal = 1
              THEN /\ periods[i + 1].month_number = (periods[i].month_number % 12) + 1
                   /\ periods[i + 1].is_leap = 0
              ELSE /\ periods[i + 1].month_number = periods[i].month_number
                   /\ periods[i + 1].is_leap = 1

\* past the anchor period one period without a principal term kept the
\* number of the one before it, and the numbering wrapped from 12 to 1
C20_Witness ==
    /\ Assembled
    /\ \E i \in loc.zi_index .. Len0(periods) - 2 :
          /\ periods[i + 1].has_principal = 0
          /\ periods[i + 1].is_leap = 1
          /\ periods[i + 1].month_number = periods[i].month_number
    /\ \E i \in loc.zi_index .. Len0(periods) - 2 :
          /\ periods[i].month_number = 12
          /\ periods[i + 1].has_principal = 1
          /\ periods[i + 1].month_number = 1

\* C21: after the backward pass, for consecutive periods i, i + 1 with i + 1
\* at or before the anchor period, the numbers are those of the forward rule
\* read in time order: a period i + 1 with a principal term has month_number
\* (month_number of i % 12) + 1, and a leap period i + 1 has the month_number
\* of period i.
C21_BackwardMirrorsForward ==
    Assembled
        => \A i \in 0 .. loc.zi_index - 1 :
              /\ periods[i + 1].has_principal = 1
                    => periods[i + 1].month_number = (periods[i].month_number % 12) + 1
              /\ periods[i + 1].is_leap = 1
                    => periods[i + 1].month_number = periods[i].month_number

\* the lunar year lines 496-511 give a date that falls in period i
LunarYearOfPeriod(i) == lunar_year_of(periods[i])

\* from period i into period i + 1 the lunar year goes up by one when the
\* month number goes from 12 to 1, and stays otherwise
LunarYearStep(i) ==
    LunarYearOfPeriod(i + 1) =
        LunarYearOfPeriod(i)
            + (IF periods[i].month_number = 12 /\ periods[i + 1].month_number = 1
               THEN 1 ELSE 0)

\* C26: the lunar year is the Gregorian year of the period's start for months
\* 1..11 and, for month 12, one less when the period starts in January or
\* February; so along consecutive periods it is the same from month 1 through
\* month 12, leap months included, goes up by exactly one at the step from
\* month 12 into month 1 and changes nowhere else.
C26_LunarYearAlongPeriods ==
    Assembled => \A i \in 0 .. Len0(periods) - 2 : LunarYearStep(i)

\* no period before the anchor period lacks a principal term
NoLeapBeforeAnchor == \A i \in 0 .. loc.zi_index - 1 : periods[i].has_principal = 1

\* C26 where the backward pass met no leap period
C26_LunarYearWithoutEarlierLeap ==
    (Assembled /\ NoLeapBeforeAnchor)
        => \A i \in 0 .. Len0(periods) - 2 : LunarYearStep(i)

\* a year of periods behind the anchor and none of them leap
C26_WitnessWithoutEarlierLeap ==
    /\ Assembled
    /\ NoLeapBeforeAnchor
    /\ loc.zi_index >= 12
    /\ \E i \in 0 .. loc.zi_index - 1 :
          periods[i].month_number = 12 /\ periods[i + 1].month_number = 1

(***************************************************************************)
(* The other entry points are explored one call at a time: fn_in is the    *)
(* call, fn_out what it returns, and from_solar_date's own state is idle.  *)
(***************************************************************************)
machine_vars == <<args, nm_ms, pts, periods, loc, ret, out_buf, writes>>

MachineIdle ==
    /\ args = <<>>
    /\ nm_ms = EmptyArr
    /\ pts = EmptyArr
    /\ periods = EmptyArr
    /\ loc = NoLocals
    /\ ret = <<>>
    /\ out_buf = FreshBuffer
    /\ writes = EmptyArr

Called == pc = "returned"

(***************************************************************************)
(* days_from_civil and civil_from_days.                                    *)
(***************************************************************************)
DayWindow == 200

CivilYears ==
    {-401, -400, -399, -101, -100, -5, -4, -1, 0, 1, 4, 100, 400, 1600, 1900,
     1970, 2000, 2024, 2100}

\* day numbers of 0000-03-01 one era back, 0000-03-01, 0001-01-01,
\* 1970-01-01, 2000-03-01 and 2400-03-01
DayCentres == {-865565, -719468, -719162, 0, 11017, 157114}

IsLeapYear(y) == y % 4 = 0 /\ (y % 100 # 0 \/ y % 400 = 0)

DaysInMonth(y, m) ==
    IF m = 2 THEN (IF IsLeapYear(y) THEN 29 ELSE 28)
    ELSE IF m \in {4, 6, 9, 11} THEN 30 ELSE 31

ValidDate(c) == c.m \in 1 .. 12 /\ c.d \in 1 .. DaysInMonth(c.y, c.m)

NextDate(c) ==
    IF c.d < DaysInMonth(c.y, c.m) THEN [c EXCEPT !.d = @ + 1]
    ELSE IF c.m < 12 THEN [y |-> c.y, m |-> c.m + 1, d |-> 1]
    ELSE [y |-> c.y + 1, m |-> 1, d |-> 1]

CivilCalls ==
    {[op |-> "days_from_civil", date |-> c] :
        c \in {c \in [y : CivilYears, m : 1 .. 12, d : 1 .. 31] : ValidDate(c)}}
    \cup
    {[op |-> "civil_from_days", days |-> c + k] :
        c \in DayCentres, k \in -DayWindow .. DayWindow}

InitCivil ==
    /\ fn_in \in CivilCalls
    /\ fn_out = <<>>
    /\ pc = "call"
    /\ scan = NoScan
    /\ MachineIdle

CallDaysFromCivil ==
    /\ pc = "call"
    /\ fn_in.op = "days_from_civil"
    /\ fn_out' = <<days_from_civil(fn_in.date.y, fn_in.date.m, fn_in.date.d)>>
    /\ pc' = "returned"
    /\ UNCHANGED <<fn_in, scan, machine_vars>>

CallCivilFromDays ==
    /\ pc = "call"
    /\ fn_in.op = "civil_from_days"
    /\ fn_out' = <<civil_from_days(fn_in.days)>>
    /\ pc' = "returned"
    /\ UNCHANGED <<fn_in, scan, machine_vars>>

NextCivil ==
    \/ CallDaysFromCivil
    \/ CallCivilFromDays

SpecCivil == InitCivil /\ [][NextCivil]_vars

\* C5: civil_from_days undoes days_from_civil on every valid date, years
\* <= 0 included; days_from_civil undoes civil_from_days on every day
\* number, whose date is a valid one; and the day number after n has the
\* date after the date of n.
C5_TwoWayInverse ==
    Called
        => /\ fn_in.op = "days_from_civil"
                => civil_from_days(fn_out[1]) = fn_in.date
           /\ fn_in.op = "civil_from_days"
                => /\ ValidDate(fn_out[1])
                   /\ days_from_civil(fn_out[1].y, fn_out[1].m, fn_out[1].d) = fn_in.days
                   /\ civil_from_days(fn_in.days + 1) = NextDate(fn_out[1])

\* the leap day of a leap year <= 0 has been converted to a day number
C5_Witness ==
    /\ Called
    /\ fn_in.op = "days_from_civil"
    /\ fn_in.date.y <= 0
    /\ fn_in.date.m = 2
    /\ fn_in.date.d = 29
    /\ fn_out[1] < -719468

(***************************************************************************)
(* cycle_from_stem_branch and bazi_ganzhi_from_cycle.                      *)
(***************************************************************************)
\* the stem and branch the caller holds before bazi_ganzhi_from_cycle
UnsetPair == [stem_idx |-> 0, branch_idx |-> 0]

CycleCalls ==
    {[op |-> "cycle_from_stem_branch", s |-> s, b |-> b] : s \in 0 .. 9, b \in 0 .. 11}
    \cup {[op |-> "bazi_ganzhi_from_cycle", c |-> c] : c \in 0 .. 61}

InitCycle ==
    /\ fn_in \in CycleCalls
    /\ fn_out = <<>>
    /\ pc = "call"
    /\ scan = NoScan
    /\ MachineIdle

CallCycleFromStemBranch ==
    /\ pc = "call"
    /\ fn_in.op = "cycle_from_stem_branch"
    /\ fn_out' = <<cycle_from_stem_branch(fn_in.s + 1, fn_in.b + 1)>>
    /\ pc' = "returned"
    /\ UNCHANGED <<fn_in, scan, machine_vars>>

\* bazi_ganzhi_from_cycle, then cycle_from_stem_branch on what it stored
CallGanzhiFromCycle ==
    /\ pc = "call"
    /\ fn_in.op = "bazi_ganzhi_from_cycle"
    /\ \E g \in {bazi_ganzhi_from_cycle(fn_in.c, UnsetPair)} :
          fn_out' = <<cycle_from_stem_branch(g.stem_idx + 1, g.branch_idx + 1), g>>
    /\ pc' = "returned"
    /\ UNCHANGED <<fn_in, scan, machine_vars>>

NextCycle ==
    \/ CallCycleFromStemBranch
    \/ CallGanzhiFromCycle

SpecCycle == InitCycle /\ [][NextCycle]_vars

\* C6: for a 0-based stem s and branch b of equal parity,
\* cycle_from_stem_branch(s+1, b+1) is the one c in 1..60 with
\* (c-1) mod 10 = s and (c-1) mod 12 = b; and for c in 1..60,
\* bazi_ganzhi_from_cycle(c) followed by cycle_from_stem_branch gives c.
C6_CycleRoundTrip ==
    Called
        => /\ (fn_in.op = "cycle_from_stem_branch" /\ fn_in.s % 2 = fn_in.b % 2)
                => /\ fn_out[1] \in 1 .. 60
                   /\ (fn_out[1] - 1) % 10 = fn_in.s
                   /\ (fn_out[1] - 1) % 12 = fn_in.b
                   /\ \A c \in 1 .. 60 :
                         ((c - 1) % 10 = fn_in.s /\ (c - 1) % 12 = fn_in.b)
                            => c = fn_out[1]
           /\ (fn_in.op = "bazi_ganzhi_from_cycle" /\ fn_in.c \in 1 .. 60)
                => /\ fn_out[1] = fn_in.c
                   /\ fn_out[2].stem_idx = (fn_in.c - 1) % 10
                   /\ fn_out[2].branch_idx = (fn_in.c - 1) % 12

\* the last pair of the cycle has been looked up
C6_Witness ==
    /\ Called
    /\ fn_in.op = "cycle_from_stem_branch"
    /\ fn_in.s = 9
    /\ fn_in.b = 11
    /\ fn_out[1] = 60

(***************************************************************************)
(* The four pillars as from_solar_date computes them.                      *)
(***************************************************************************)
YearSpan == 30

GanzhiYears == (-YearSpan .. YearSpan) \cup {1984, 2024, 2025}

\* wall-clock days before and after the epoch, and seconds of the day around
\* the hour boundaries
WallDays == {-7, -1, 0, 20078}

WallSeconds == {0, 3599, 3600, 10800, 82799, 82800}

GanzhiCalls ==
    {[lunar_year |-> y, lunar_month |-> m, wall_ms |-> d * 86400 + t] :
        y \in GanzhiYears, m \in 1 .. 12, d \in WallDays, t \in WallSeconds}

InitGanzhi ==
    /\ fn_in \in GanzhiCalls
    /\ fn_out = <<>>
    /\ pc = "call"
    /\ scan = NoScan
    /\ MachineIdle

\* the calls of year_ganzhi, month_ganzhi, day_ganzhi and hour_ganzhi
four_pillars(lunar_year, lunar_month, wall_ms) ==
    [year  |-> year_ganzhi(lunar_year),
     month |-> month_ganzhi(lunar_year, lunar_month),
     day   |-> day_ganzhi(wall_ms),
     hour  |-> hour_ganzhi(wall_ms, day_ganzhi(wall_ms).stem_idx)]

CallPillars ==
    /\ pc = "call"
    /\ fn_out' = <<four_pillars(fn_in.lunar_year, fn_in.lunar_month, fn_in.wall_ms)>>
    /\ pc' = "returned"
    /\ UNCHANGED <<fn_in, scan, machine_vars>>

NextGanzhi == CallPillars

SpecGanzhi == InitGanzhi /\ [][NextGanzhi]_vars

PillarConsistent(g) ==
    /\ g.cycle \in 1 .. 60
    /\ (g.cycle - 1) % 10 = g.stem_idx
    /\ (g.cycle - 1) % 12 = g.branch_idx

\* C7: for every lunar year (years <= 4 and negative years included), lunar
\* month 1..12 and local time, each of the four pillars has a cycle in 1..60
\* with (cycle-1) % 10 = stem index and (cycle-1) % 12 = branch index; the
\* month and hour pillars have stem and branch of equal parity.
C7_PillarsConsistent ==
    Called
        => /\ \A f \in {"year", "month", "day", "hour"} : PillarConsistent(fn_out[1][f])
           /\ fn_out[1].month.stem_idx % 2 = fn_out[1].month.branch_idx % 2
           /\ fn_out[1].hour.stem_idx % 2 = fn_out[1].hour.branch_idx % 2

\* a negative lunar year, before the epoch, in the late Zi hour
C7_Witness ==
    /\ Called
    /\ fn_in.lunar_year < 0
    /\ fn_in.lunar_month = 12
    /\ fn_in.wall_ms < 0
    /\ fn_out[1].hour.branch_idx = 0
    /\ fn_out[1].month.cycle # 1
    /\ tod_of(fn_in.wall_ms) >= 82800

(***************************************************************************)
(* hour_ganzhi on its own: every hour of the day, minutes and seconds on   *)
(* both sides of the half hour, every day stem, days before and after the  *)
(* epoch.                                                                  *)
(***************************************************************************)
HourDays == {-1, 0}

HourMinutes == {0, 1, 29, 30, 59}

HourSeconds == {0, 59}

HourCalls ==
    [day : HourDays, hour : 0 .. 23, minute : HourMinutes, second : HourSeconds,
     base_day_stem : 0 .. 9]

hour_wall_ms(day, hour, minute, second) ==
    day * 86400 + hour * 3600 + minute * 60 + second

InitHour ==
    /\ fn_in \in HourCalls
    /\ fn_out = <<>>
    /\ pc = "call"
    /\ scan = NoScan
    /\ MachineIdle

CallHour ==
    /\ pc = "call"
    /\ fn_out' = <<hour_ganzhi(hour_wall_ms(fn_in.day, fn_in.hour, fn_in.minute, fn_in.second),
                               fn_in.base_day_stem)>>
    /\ pc' = "returned"
    /\ UNCHANGED <<fn_in, scan, machine_vars>>

NextHour == CallHour

SpecHour == InitHour /\ [][NextHour]_vars

\* the day stem the hour stem is derived from
EffectiveDayStem ==
    IF fn_in.hour = 23 THEN (fn_in.base_day_stem + 1) % 10 ELSE fn_in.base_day_stem

\* C23: for every local time (hour 0..23, any minute) and day stem d, the hour
\* branch is ((hour + 1) div 2) mod 12 whatever the minute, the hour stem is
\* (2 * (d' mod 5) + branch) mod 10 with d' = d for hours 0..22 and
\* d' = (d + 1) mod 10 for hour 23, and 23:xx of one day has the hour pillar
\* of 00:xx of the next day, whose day stem is one further.
C23_HourPillar ==
    Called
        => /\ fn_out[1].branch_idx = ((fn_in.hour + 1) \div 2) % 12
           /\ fn_out[1].stem_idx = (2 * (EffectiveDayStem % 5) + fn_out[1].branch_idx) % 10
           /\ PillarConsistent(fn_out[1])
           /\ fn_in.hour = 23
                 => fn_out[1] = hour_ganzhi(hour_wall_ms(fn_in.day + 1, 0, fn_in.minute, fn_in.second),
                                            (fn_in.base_day_stem + 1) % 10)

\* 23:59:59 of the day before the epoch with the last day stem: the stem used
\* wraps to 0 and the branch is Zi
C23_Witness ==
    /\ Called
    /\ fn_in.day = -1
    /\ fn_in.hour = 23
    /\ fn_in.minute = 59
    /\ fn_in.base_day_stem = 9
    /\ fn_out[1].branch_idx = 0
    /\ fn_out[1].stem_idx = 0

(***************************************************************************)
(* The day pillar of an instant under an offset, as the two variants of    *)
(* from_solar_date compute it.                                             *)
(***************************************************************************)
\* day_ganzhi of src/wasm, which adds the offset itself
day_ganzhi_wasm(timestamp_ms, tz_offset_seconds) ==
    pillar_of_cycle(day_cycle(day_epoch_of(timestamp_ms + tz_offset_seconds)
                                  - days_from_civil(4, 1, 31)))

\* day_ganzhi of src/ports, fed the wall-clock time from_solar_date rebuilds
day_ganzhi_ports(timestamp_ms, tz_offset_seconds) ==
    day_ganzhi(wall_ms_of(timestamp_ms, tz_offset_seconds))

\* a whole sexagenary cycle of days on both sides of the epoch, and a day of 2024
InstantDays == (-62 .. 1) \cup {19782}

InstantSeconds == {0, 1, 17999, 43199, 43200, 57599, 86399}

InstantOffsets == {0, 28800, -18000, 50400, -43200, 19800}

DayCalls == [day : InstantDays, second : InstantSeconds, tz_offset_seconds : InstantOffsets]

InitDay ==
    /\ fn_in \in DayCalls
    /\ fn_out = <<>>
    /\ pc = "call"
    /\ scan = NoScan
    /\ MachineIdle

CallDay ==
    /\ pc = "call"
    /\ \E ts \in {fn_in.day * 86400 + fn_in.second} :
          fn_out' = <<[ports |-> day_ganzhi_ports(ts, fn_in.tz_offset_seconds),
                       wasm  |-> day_ganzhi_wasm(ts, fn_in.tz_offset_seconds),
                       ports_next_second |-> day_ganzhi_ports(ts + 1, fn_in.tz_offset_seconds),
                       wasm_next_second  |-> day_ganzhi_wasm(ts + 1, fn_in.tz_offset_seconds)]>>
    /\ pc' = "returned"
    /\ UNCHANGED <<fn_in, scan, machine_vars>>

NextDay == CallDay

SpecDay == InitDay /\ [][NextDay]_vars

\* the instant of the call shifted by the offset, its local day counted from
\* 1970-01-01 by floor division, and its second of the local day
LocalSeconds == fn_in.day * 86400 + fn_in.second + fn_in.tz_offset_seconds

LocalDay == (LocalSeconds - (LocalSeconds % 86400)) \div 86400

LocalDate == civil_from_days(LocalDay)

AnchorYears == 2022 .. 2026

\* 21 December 09:20 UTC, later by 5 h 50 min with each year after a leap year
WinterSolsticeOf(y) == days_from_civil(y, 12, 21) * 86400 + 33600 + (y % 4) * 21000

NewYear2025 == days_from_civil(2025, 1, 1) * 86400

AnchorQueries ==
    {WinterSolsticeOf(2024), WinterSolsticeOf(2024) - 1, WinterSolsticeOf(2023) - 1,
     NewYear2025 - 4 * 3600, NewYear2025 + 2 * 3600, NewYear2025 - 200 * 86400,
     WinterSolsticeOf(2025) + 86400, WinterSolsticeOf(2022) - 40 * 86400,
     WinterSolsticeOf(2026) + 70 * 86400}

AnchorOffsets == {0, 50400, -43200}

\* the solstices of the years (index 18), a Major Cold (index 20) and a
\* sectional term (index 19)
AnchorTerms(years) ==
    SelectSeq([k \in 1 .. 5 |-> [ts |-> WinterSolsticeOf(2027 - k), idx |-> 18]],
              LAMBDA t : \E y \in years : t.ts = WinterSolsticeOf(y))
    \o <<[ts |-> WinterSolsticeOf(2024) + PrincipalStep, idx |-> 20],
         [ts |-> WinterSolsticeOf(2024) + PrincipalStep \div 2, idx |-> 19]>>

InitAnchor ==
    /\ \E years \in SUBSET AnchorYears, q \in AnchorQueries, tz \in AnchorOffsets :
          fn_in = [timestamp_ms |-> q, tz_offset_seconds |-> tz, years |-> years]
    /\ fn_out = <<>>
    /\ pc = "call"
    /\ scan = NoScan
    /\ MachineIdle

\* lines 401-433 on the principal terms of lines 348-373
anchor_search(terms, timestamp_ms, local_year, best) ==
    IF best < 0 THEN [ret |-> -1, pts |-> terms, local_year |-> local_year, z11_best |-> best]
    ELSE [ret |-> 0, pts |-> terms, local_year |-> local_year, z11_best |-> best,
          anchor_ms |-> anchor_of(terms, best, timestamp_ms, local_year)]

CallAnchor ==
    /\ pc = "call"
    /\ \E terms \in {AnchorTerms(fn_in.years)} :
       \E p \in {build_principal_terms([k \in 1 .. Len(terms) |-> terms[k].ts],
                                       [k \in 1 .. Len(terms) |-> terms[k].idx],
                                       fn_in.tz_offset_seconds)} :
       \E ly \in {utc_ms_to_date_parts(fn_in.timestamp_ms, fn_in.tz_offset_seconds).y} :
          fn_out' = <<anchor_search(p, fn_in.timestamp_ms, ly, z11_scan(p, 0, -1, ly))>>
    /\ pc' = "returned"
    /\ UNCHANGED <<fn_in, scan, machine_vars>>

NextAnchor == CallAnchor

SpecAnchor == InitAnchor /\ [][NextAnchor]_vars

\* the Winter Solstices among the principal terms of the call, and their years
Solstices == {i \in DOMAIN fn_out[1].pts : fn_out[1].pts[i].term_index = 11}

SolsticeYear(i) == utc_year_of(fn_out[1].pts[i].instant_utc_ms)

SolsticesOf(year) == {i \in Solstices : SolsticeYear(i) = year}

YearDistance(i) == Abs(SolsticeYear(i) - fn_out[1].local_year)

IsReference(i) ==
    /\ i \in Solstices
    /\ IF SolsticesOf(fn_out[1].local_year) # {} THEN SolsticeYear(i) = fn_out[1].local_year
       ELSE \A j \in Solstices : YearDistance(i) <= YearDistance(j)

AnchorAsStated ==
    LET ref == fn_out[1].pts[fn_out[1].z11_best].instant_utc_ms
        prev == SolsticesOf(fn_out[1].local_year - 1)
    IN  IF fn_in.timestamp_ms >= ref THEN ref
        ELSE IF prev # {} THEN fn_out[1].pts[CHOOSE i \in prev : TRUE].instant_utc_ms
        ELSE ref

SolsticesNotAfterQuery ==
    {fn_out[1].pts[i].instant_utc_ms : i \in {j \in Solstices :
        fn_out[1].pts[j].instant_utc_ms <= fn_in.timestamp_ms}}

\* C25: the reference Winter Solstice is the one of the query's local year if
\* there is one, otherwise one at minimal distance in years; the anchor is its
\* instant when the query is at or after it, otherwise the Winter Solstice of
\* the year before the local year if there is one, otherwise the reference
\* again; when the terms hold the solstices of the local year and of the year
\* before, the anchor is the latest solstice not after the query.
C25_AnchorSelection ==
    Called
        => /\ fn_out[1].ret = -1 <=> Solstices = {}
           /\ fn_out[1].ret = 0
                 => /\ IsReference(fn_out[1].z11_best)
                    /\ fn_out[1].anchor_ms = AnchorAsStated
                    /\ (SolsticesOf(fn_out[1].local_year) # {}
                            /\ SolsticesOf(fn_out[1].local_year - 1) # {})
                          => /\ SolsticesNotAfterQuery # {}
                             /\ \A s \in SolsticesNotAfterQuery : s <= fn_out[1].anchor_ms
                             /\ fn_out[1].anchor_ms \in SolsticesNotAfterQuery

\* a query on 31 December UTC that is already in the next local year: the
\* reference solstice is still to come and the anchor falls back a year
C25_Witness ==
    /\ Called
    /\ fn_out[1].ret = 0
    /\ utc_year_of(fn_in.timestamp_ms) = 2024
    /\ fn_out[1].local_year = 2025
    /\ fn_in.years = AnchorYears
    /\ fn_out[1].pts[fn_out[1].z11_best].instant_utc_ms = WinterSolsticeOf(2025)
    /\ fn_out[1].anchor_ms = WinterSolsticeOf(2024)

\* no solstice of the local year: the nearest in years is the reference
C25_WitnessNearest ==
    /\ Called
    /\ fn_out[1].ret = 0
    /\ fn_out[1].local_year = 2024
    /\ fn_in.years = {2022, 2026}
    /\ Len0(fn_out[1].pts) = 3

(***************************************************************************)
(* The day-grid scans of ephemeris.c.  Julian days are held as whole days  *)
(* since 1970-01-01 and angles in units of 1/10000 degree.  The Swiss      *)
(* Ephemeris longitudes are replaced by mean motions counted from          *)
(* 2000-01-01: 13.1764 degrees a day for the Moon, 0.9856 for the Sun.     *)
(***************************************************************************)
EPHE_MAX_NEW_MOONS == 64

EPHE_MAX_SOLAR_TERMS == 96

MaxSpanYears == 6

FirstYears == {2023, 2024}

Circle == 360 * 10000

swe_julday(year, month, day) == days_from_civil(year, month, day)

jd_to_unix_sec(jd) == jd * 86400

norm180_fold(a) ==
    IF a > Circle \div 2 THEN a - Circle
    ELSE IF a <= -(Circle \div 2) THEN a + Circle
    ELSE a

norm180(a) == norm180_fold(CMod(a, Circle))

sun_lon(jd_ut) == ((jd_ut - 10957) * 9856) % Circle

moon_lon(jd_ut) == ((jd_ut - 10957) * 131764) % Circle

elongation(jd_ut) == norm180(moon_lon(jd_ut) - sun_lon(jd_ut))

\* the instant, in seconds, at which the elongation passes zero between jd_lo
\* and the next day, as the bisection closes in on it
bisect_new_moon(jd_lo, e_lo, e_hi) ==
    jd_to_unix_sec(jd_lo) + (((-e_lo) \div 100) * 86400) \div ((e_hi - e_lo) \div 100)

sector_of(lon) == (lon \div (15 * 10000)) % 24

\* the instant at which the Sun reaches the start of the sector it is in at
\* the end of the day that starts at jd_lo
bisect_sun_crossing(jd_lo, lon_hi) ==
    jd_to_unix_sec(jd_lo) + 86400 - (((lon_hi % (15 * 10000)) \div 100) * 86400) \div 98

EpheCalls ==
    {[fn |-> f, start_year |-> y, end_year |-> y + n - 1,
      max_count |-> IF f = "compute_new_moons" THEN EPHE_MAX_NEW_MOONS
                    ELSE EPHE_MAX_SOLAR_TERMS] :
        f \in {"compute_new_moons", "compute_solar_terms"},
        y \in FirstYears, n \in 1 .. MaxSpanYears}

InitEphe ==
    /\ fn_in \in EpheCalls
    /\ fn_out = <<>>
    /\ pc = "call"
    /\ scan = NoScan
    /\ MachineIdle

\* compute_new_moons, lines 76-80
NewMoonsEnter ==
    /\ pc = "call"
    /\ fn_in.fn = "compute_new_moons"
    /\ scan' = [phase  |-> "new_moons",
                count  |-> 0,
                jd     |-> swe_julday(fn_in.start_year, 1, 1),
                jd_end |-> swe_julday(fn_in.end_year + 1, 1, 1),
                prev   |-> elongation(swe_julday(fn_in.start_year, 1, 1)),
                out_ts |-> <<>>,
                out_idx |-> <<>>]
    /\ pc' = "scan"
    /\ UNCHANGED <<fn_in, fn_out, machine_vars>>

\* the loop condition of both scans
scan_continues(jd, jd_end, count, max_count) == jd < jd_end /\ count < max_count

\* one iteration of the while loop of compute_new_moons
NewMoonsStep ==
    /\ pc = "scan"
    /\ scan.phase = "new_moons"
    /\ scan_continues(scan.jd, scan.jd_end, scan.count, fn_in.max_count)
    /\ \E curr \in {elongation(scan.jd + 1)} :
          IF scan.prev < 0 /\ curr >= 0
          THEN scan' = [scan EXCEPT
                           !.out_ts = Append(@, bisect_new_moon(scan.jd, scan.prev, curr)),
                           !.count = @ + 1,
                           !.prev = curr,
                           !.jd = @ + 1]
          ELSE scan' = [scan EXCEPT !.prev = curr, !.jd = @ + 1]
    /\ UNCHANGED <<pc, fn_in, fn_out, machine_vars>>

\* return count, line 96
NewMoonsReturn ==
    /\ pc = "scan"
    /\ scan.phase = "new_moons"
    /\ ~scan_continues(scan.jd, scan.jd_end, scan.count, fn_in.max_count)
    /\ fn_out' = <<scan.count>>
    /\ pc' = "returned"
    /\ UNCHANGED <<fn_in, scan, machine_vars>>

\* compute_solar_terms, lines 121-125
SolarTermsEnter ==
    /\ pc = "call"
    /\ fn_in.fn = "compute_solar_terms"
    /\ scan' = [phase  |-> "solar_terms",
                count  |-> 0,
                jd     |-> swe_julday(fn_in.start_year, 1, 1),
                jd_end |-> swe_julday(fn_in.end_year + 1, 1, 1),
                prev   |-> sector_of(sun_lon(swe_julday(fn_in.start_year, 1, 1))),
                out_ts |-> <<>>,
                out_idx |-> <<>>]
    /\ pc' = "scan"
    /\ UNCHANGED <<fn_in, fn_out, machine_vars>>

\* one iteration of the while loop of compute_solar_terms
SolarTermsStep ==
    /\ pc = "scan"
    /\ scan.phase = "solar_terms"
    /\ scan_continues(scan.jd, scan.jd_end, scan.count, fn_in.max_count)
    /\ \E sl \in {sun_lon(scan.jd + 1)} :
          IF sector_of(sl) # scan.prev
          THEN scan' = [scan EXCEPT
                           !.out_ts = Append(@, bisect_sun_crossing(scan.jd, sl)),
                           !.out_idx = Append(@, sector_of(sl)),
                           !.count = @ + 1,
                           !.prev = sector_of(sl),
                           !.jd = @ + 1]
          ELSE scan' = [scan EXCEPT !.prev = sector_of(sl), !.jd = @ + 1]
    /\ UNCHANGED <<pc, fn_in, fn_out, machine_vars>>

\* return count, line 143
SolarTermsReturn ==
    /\ pc = "scan"
    /\ scan.phase = "solar_terms"
    /\ ~scan_continues(scan.jd, scan.jd_end, scan.count, fn_in.max_count)
    /\ fn_out' = <<scan.count>>
    /\ pc' = "returned"
    /\ UNCHANGED <<fn_in, scan, machine_vars>>

NextEphe ==
    \/ NewMoonsEnter
    \/ NewMoonsStep
    \/ NewMoonsReturn
    \/ SolarTermsEnter
    \/ SolarTermsStep
    \/ SolarTermsReturn

SpecEphe == InitEphe /\ [][NextEphe]_vars

\* the days of the requested range on which the scan meets an event
EventDays ==
    {d \in swe_julday(fn_in.start_year, 1, 1) .. swe_julday(fn_in.end_year + 1, 1, 1) - 1 :
        IF fn_in.fn = "compute_new_moons"
        THEN elongation(d) < 0 /\ elongation(d + 1) >= 0
        ELSE sector_of(sun_lon(d + 1)) # sector_of(sun_lon(d))}

\* C10: when the requested years hold more new moons, or more solar-term
\* crossings, than max_count, the scan returns the error value -1.
C10_OverflowIsError ==
    (Called /\ Cardinality(EventDays) > fn_in.max_count) => fn_out[1] = -1

(***************************************************************************)
(* The bisections and the day-grid scans of ephemeris.c under an arbitrary *)
(* oracle.  A bracket is held in units of 2^-27 day counted from its lower *)
(* grid day: Julian days of the ephemeris range are below 2^26, so the     *)
(* midpoints of 27 halvings of a one-day bracket are exact doubles.  The   *)
(* oracle is what swe_calc_ut answers: on the grid it shows a sign or a    *)
(* sector that changes with a period of the call, inside a bracket it      *)
(* answers freely for the first FreeSteps midpoints and by rote after.     *)
(***************************************************************************)
DayUnits == 2 ^ 27

BisectIterations == 50

FreeSteps == 4

\* jd_hi - jd_lo < BISECT_PRECISION_JD never true
below_precision_never(width) == FALSE

\* jd_hi - jd_lo < BISECT_PRECISION_JD: 1e-8 day is 1.34 units
below_precision(width) == width < 2

bisect_mid(jd_lo, jd_hi) == (jd_lo + jd_hi) \div 2

\* the answers (e_lo < 0.0) == (e_mid < 0.0) can have at iteration i
same_sign_choices(kind, i) ==
    CASE kind = "lo"  -> {TRUE}
      [] kind = "hi"  -> {FALSE}
      [] kind = "alt" -> {i % 2 = 0}
      [] OTHER        -> IF i < FreeSteps THEN BOOLEAN ELSE {i % 3 = 0}

\* one pass through the body of the for loop
bisect_iteration(s, same) ==
    [s EXCEPT !.lo = IF same THEN bisect_mid(s.lo, s.hi) ELSE s.lo,
              !.hi = IF same THEN s.hi ELSE bisect_mid(s.lo, s.hi),
              !.i  = s.i + 1]

\* break, or i < 50 false
bisect_exit(s) == IF below_precision(s.hi - s.lo) \/ s.i >= BisectIterations THEN "found" ELSE "bisect"

\* elongation on day k of the grid: negative but on the last day of each period
oracle_elongation(k, period) == IF k % period # period - 1 THEN -1 ELSE 1

\* sector of the Sun on day k of the grid
oracle_sector(k, period) == (k \div period) % 24

oracle_grid(fn, k, period) ==
    IF fn = "compute_new_moons" THEN oracle_elongation(k, period) ELSE oracle_sector(k, period)

\* prev < 0.0 && curr >= 0.0, or curr_sector != prev_sector
grid_event(fn, prev, curr) ==
    IF fn = "compute_new_moons" THEN prev < 0 /\ curr >= 0 ELSE curr # prev

OracleCall(fn, span, max_count, period, kind) ==
    [fn |-> fn, start_year |-> 2024, end_year |-> 2024 + span, max_count |-> max_count,
     period |-> period, oracle |-> kind]

InitOracle ==
    /\ \E fn \in {"compute_new_moons", "compute_solar_terms"} :
          \/ \E span \in {-2, -1, 0}, mc \in {0, 2, 12}, period \in {1, 2, 30, 400},
                kind \in {"lo", "hi", "alt"} :
                fn_in = OracleCall(fn, span, mc, period, kind)
          \/ \E mc \in {1, 2} :
                fn_in = OracleCall(fn, 0, mc, IF fn = "compute_new_moons" THEN 2 ELSE 1, "free")
    /\ fn_out = <<>>
    /\ pc = "call"
    /\ scan = NoScan
    /\ MachineIdle

\* lines 76-80 and 121-125
OracleEnter ==
    /\ pc = "call"
    /\ scan' = [phase   |-> "grid",
                count   |-> 0,
                jd0     |-> swe_julday(fn_in.start_year, 1, 1),
                jd      |-> swe_julday(fn_in.start_year, 1, 1),
                jd_end  |-> swe_julday(fn_in.end_year + 1, 1, 1),
                prev    |-> oracle_grid(fn_in.fn, 0, fn_in.period),
                curr    |-> 0,
                out_ts  |-> <<>>,
                out_idx |-> <<>>,
                lo |-> 0, hi |-> 0, i |-> 0]
    /\ pc' = "scan"
    /\ UNCHANGED <<fn_in, fn_out, machine_vars>>

\* one iteration of the while loop up to the call of the bisection
OracleGridStep ==
    /\ pc = "scan"
    /\ scan.phase = "grid"
    /\ scan_continues(scan.jd, scan.jd_end, scan.count, fn_in.max_count)
    /\ \E curr \in {oracle_grid(fn_in.fn, scan.jd + 1 - scan.jd0, fn_in.period)} :
          IF grid_event(fn_in.fn, scan.prev, curr)
          THEN scan' = [scan EXCEPT !.phase = "bisect", !.curr = curr,
                                    !.lo = 0, !.hi = DayUnits, !.i = 0]
          ELSE scan' = [scan EXCEPT !.prev = curr, !.jd = @ + 1]
    /\ UNCHANGED <<pc, fn_in, fn_out, machine_vars>>

\* one iteration of the for loop of bisect_new_moon or bisect_sun_crossing
BisectIterate ==
    /\ pc = "scan"
    /\ scan.phase = "bisect"
    /\ \E same \in same_sign_choices(fn_in.oracle, scan.i) :
       \E s \in {bisect_iteration(scan, same)} :
          scan' = [s EXCEPT !.phase = bisect_exit(s)]
    /\ UNCHANGED <<pc, fn_in, fn_out, machine_vars>>

\* return (jd_lo + jd_hi) * 0.5 and the rest of the iteration of the while
\* loop; an instant is kept as its grid day and twice its offset in the day
BisectReturn ==
    /\ pc = "scan"
    /\ scan.phase = "found"
    /\ scan' = [scan EXCEPT
                   !.phase = "grid",
                   !.out_ts = Append(@, [day |-> scan.jd, twice |-> scan.lo + scan.hi]),
                   !.out_idx = IF fn_in.fn = "compute_new_moons" THEN @
                               ELSE Append(@, scan.curr),
                   !.count = @ + 1,
                   !.prev = scan.curr,
                   !.jd = @ + 1]
    /\ UNCHANGED <<pc, fn_in, fn_out, machine_vars>>

\* return count
OracleReturn ==
    /\ pc = "scan"
    /\ scan.phase = "grid"
    /\ ~scan_continues(scan.jd, scan.jd_end, scan.count, fn_in.max_count)
    /\ fn_out' = <<scan.count>>
    /\ pc' = "returned"
    /\ UNCHANGED <<fn_in, scan, machine_vars>>

NextOracle ==
    \/ OracleEnter
    \/ OracleGridStep
    \/ BisectIterate
    \/ BisectReturn
    \/ OracleReturn

SpecOracle == InitOracle /\ [][NextOracle]_vars

\* the statements of a call run one after the other until it returns
SpecOracleFair == SpecOracle /\ WF_vars(NextOracle)

\* narrower than 1e-8 day, which is one unit and a third
Narrow(width) == width <= DayUnits \div 100000000

\* instant a is before instant b
Before(a, b) ==
    \/ a.day + 1 < b.day
    \/ a.day + 1 = b.day /\ ~(a.twice = 2 * DayUnits /\ b.twice = 0)
    \/ a.day = b.day /\ a.twice < b.twice

InScan == pc \in {"scan", "returned"}

\* a bisection runs at most 50 iterations and goes on only while its bracket
\* is not narrow; the bracket lies in the one-day bracket it started from
BisectionBounded ==
    (InScan /\ scan.phase \in {"bisect", "found"})
        => /\ 0 <= scan.lo /\ scan.lo <= scan.hi /\ scan.hi <= DayUnits
           /\ scan.i <= BisectIterations
           /\ scan.phase = "bisect" => ~Narrow(scan.hi - scan.lo) /\ scan.i < BisectIterations
           /\ scan.phase = "found" => Narrow(scan.hi - scan.lo) \/ scan.i = BisectIterations

\* the instants of a scan lie in the grid steps that found them, one to a
\* step, and each is before the next
ScanOrdered ==
    InScan
        => /\ Len(scan.out_ts) = scan.count
           /\ \A k \in 1 .. Len(scan.out_ts) :
                 /\ scan.jd0 <= scan.out_ts[k].day /\ scan.out_ts[k].day < scan.jd
                 /\ 0 <= scan.out_ts[k].twice /\ scan.out_ts[k].twice <= 2 * DayUnits
           /\ \A k \in 1 .. Len(scan.out_ts) - 1 :
                 /\ scan.out_ts[k].day < scan.out_ts[k + 1].day
                 /\ Before(scan.out_ts[k], scan.out_ts[k + 1])

\* an iteration of a bisection moves one end of the bracket inwards
BracketShrinks ==
    (InScan /\ scan.phase = "bisect" /\ scan'.phase \in {"bisect", "found"})
        => /\ scan.lo <= scan'.lo
           /\ scan'.hi <= scan.hi
           /\ scan'.hi - scan'.lo < scan.hi - scan.lo

\* C27: whatever the oracle answers, a bisection ends after at most 50
\* iterations, and as soon as its bracket is narrower than 1e-8 day, the
\* bracket only shrinks and the instant returned lies in the one-day bracket
\* it began with; a day-grid scan returns for every range of years, and the
\* instants it emits are strictly increasing, at most one to a grid step.
C27_BisectionsAndScansEnd ==
    /\ [](BisectionBounded /\ ScanOrdered)
    /\ [][BracketShrinks]_vars
    /\ <>Called

\* a scan of a year that returned two instants found under free answers, the
\* second on the day after the first
C27_Witness ==
    /\ Called
    /\ fn_in.oracle = "free"
    /\ fn_out[1] = 2
    /\ scan.out_ts[2].day = scan.out_ts[1].day + 1
    /\ scan.out_ts[1].twice > DayUnits
    /\ scan.out_ts[2].twice < DayUnits

(***************************************************************************)
(* bazi.c: the tables and the lookup functions.  A table is a function     *)
(* over 0 .. n-1; a read outside it yields junk, a value the caller of the *)
(* model chooses.  Strings stand for the UTF-8 names of the code.          *)
(***************************************************************************)
WOOD == 0

FIRE == 1

EARTH == 2

METAL == 3

WATER == 4

STEM_ELEMENT == ToArr(<<WOOD, WOOD, FIRE, FIRE, EARTH, EARTH, METAL, METAL, WATER, WATER>>)

STEM_POLARITY == ToArr(<<0, 1, 0, 1, 0, 1, 0, 1, 0, 1>>)

BRANCH_ELEMENT ==
    ToArr(<<WATER, EARTH, WOOD, WOOD, EARTH, FIRE, FIRE, EARTH, METAL, METAL, EARTH, WATER>>)

GEN_MAP == ToArr(<<FIRE, EARTH, METAL, WATER, WOOD>>)

CONTROL_MAP == ToArr(<<EARTH, METAL, WATER, WOOD, FIRE>>)

LONGEVITY_STAGES ==
    ToArr(<<"ChangSheng", "MuYu", "GuanDai", "LinGuan", "DiWang", "Shuai",
            "Bing", "Si", "Mu", "Jue", "Tai", "Yang">>)

LONGEVITY_STAGES_EN ==
    ToArr(<<"Growth", "Bath", "Crown Belt", "Coming of Age", "Prosperity Peak",
            "Decline", "Sickness", "Death", "Grave", "Termination",
            "Conception", "Nurture">>)

LONGEVITY_STAGES_VI ==
    ToArr(<<"Truong Sinh", "Moc Duc", "Quan Doi", "Lam Quan", "De Vuong", "Suy",
            "Benh", "Tu", "Mo", "Tuyet", "Thai", "Duong">>)

LONGEVITY_START == ToArr(<<11, 6, 2, 9, 2, 9, 5, 0, 8, 3>>)

\* the element of NAYIN_DATA[k]; entries 2n and 2n+1 are the same
NAYIN_ELEMENT ==
    ToArr(<<METAL, METAL, FIRE, FIRE, WOOD, WOOD, EARTH, EARTH, METAL, METAL,
            FIRE, FIRE, WATER, WATER, EARTH, EARTH, METAL, METAL, WOOD, WOOD,
            WATER, WATER, EARTH, EARTH, FIRE, FIRE, WOOD, WOOD, WATER, WATER,
            METAL, METAL, FIRE, FIRE, WOOD, WOOD, EARTH, EARTH, METAL, METAL,
            FIRE, FIRE, WATER, WATER, EARTH, EARTH, METAL, METAL, WOOD, WOOD,
            WATER, WATER, EARTH, EARTH, FIRE, FIRE, WOOD, WOOD, WATER, WATER>>)

\* TEN_GOD_NAMES[rel][same_pol ? 0 : 1]
TEN_GOD_NAMES ==
    ToArr(<<ToArr(<<"BiJian", "JieCai">>),
            ToArr(<<"PianYin", "ZhengYin">>),
            ToArr(<<"ShiShen", "ShangGuan">>),
            ToArr(<<"PianCai", "ZhengCai">>),
            ToArr(<<"QiSha", "ZhengGuan">>)>>)

\* table[i] as the build reads it
Rd(table, i, junk) == IF i \in DOMAIN table THEN table[i] ELSE junk

mod12(n) == IF CMod(n, 12) < 0 THEN CMod(n, 12) + 12 ELSE CMod(n, 12)

\* a range test that lets index 10 through
bazi_stem_element_loose(stem_idx, junk) ==
    IF stem_idx < 0 \/ stem_idx > 10 THEN -1 ELSE Rd(STEM_ELEMENT, stem_idx, junk)

bazi_stem_element(stem_idx, junk) ==
    IF stem_idx < 0 \/ stem_idx > 9 THEN -1 ELSE Rd(STEM_ELEMENT, stem_idx, junk)

bazi_stem_polarity(stem_idx, junk) ==
    IF stem_idx < 0 \/ stem_idx > 9 THEN -1 ELSE Rd(STEM_POLARITY, stem_idx, junk)

bazi_branch_element(branch_idx, junk) ==
    IF branch_idx < 0 \/ branch_idx > 11 THEN -1 ELSE Rd(BRANCH_ELEMENT, branch_idx, junk)

\* a relation without the test of line 348
bazi_element_relation_no_wealth(dm_elem, other_elem, junk) ==
    IF dm_elem < 0 \/ dm_elem > 4 \/ other_elem < 0 \/ other_elem > 4 THEN -1
    ELSE IF other_elem = dm_elem THEN 0
    ELSE IF Rd(GEN_MAP, other_elem, junk) = dm_elem THEN 1
    ELSE IF Rd(GEN_MAP, dm_elem, junk) = other_elem THEN 2
    ELSE IF Rd(CONTROL_MAP, other_elem, junk) = dm_elem THEN 4
    ELSE -1

bazi_element_relation(dm_elem, other_elem, junk) ==
    IF dm_elem < 0 \/ dm_elem > 4 \/ other_elem < 0 \/ other_elem > 4 THEN -1
    ELSE IF other_elem = dm_elem THEN 0
    ELSE IF Rd(GEN_MAP, other_elem, junk) = dm_elem THEN 1
    ELSE IF Rd(GEN_MAP, dm_elem, junk) = other_elem THEN 2
    ELSE IF Rd(CONTROL_MAP, dm_elem, junk) = other_elem THEN 3
    ELSE IF Rd(CONTROL_MAP, other_elem, junk) = dm_elem THEN 4
    ELSE -1

\* the name in row rel; same_pol is the C truth value
ten_god_name(rel, same_pol, junk) ==
    IF rel < 0 \/ rel > 4 THEN ""
    ELSE Rd(Rd(TEN_GOD_NAMES, rel, <<>>), IF same_pol THEN 0 ELSE 1, junk)

\* a name chosen by the element relation alone
bazi_ten_god_no_polarity(dm_stem_idx, target_stem_idx, junk) ==
    IF dm_stem_idx < 0 \/ dm_stem_idx > 9 \/ target_stem_idx < 0 \/ target_stem_idx > 9
    THEN ""
    ELSE ten_god_name(
            bazi_element_relation(Rd(STEM_ELEMENT, dm_stem_idx, junk),
                                  Rd(STEM_ELEMENT, target_stem_idx, junk), junk),
            TRUE, junk)

bazi_ten_god(dm_stem_idx, target_stem_idx, junk) ==
    IF dm_stem_idx < 0 \/ dm_stem_idx > 9 \/ target_stem_idx < 0 \/ target_stem_idx > 9
    THEN ""
    ELSE ten_god_name(
            bazi_element_relation(Rd(STEM_ELEMENT, dm_stem_idx, junk),
                                  Rd(STEM_ELEMENT, target_stem_idx, junk), junk),
            Rd(STEM_POLARITY, dm_stem_idx, junk) = Rd(STEM_POLARITY, target_stem_idx, junk),
            junk)

\* the null pointer
NULL == <<>>

bazi_nayin_for_cycle(cycle, junk) ==
    IF cycle < 1 \/ cycle > 60 THEN NULL
    ELSE [entry |-> cycle - 1, element |-> Rd(NAYIN_ELEMENT, cycle - 1, junk)]

\* offset of the branch from the start branch, forward for a Yang stem
changsheng_offset(start, polarity, branch_idx) ==
    IF polarity = 0 THEN mod12(branch_idx - start) ELSE mod12(start - branch_idx)

\* *stage_idx and *stage_name for a 1-based idx
changsheng_out(idx, junk) ==
    [stage_idx |-> idx, stage_name |-> Rd(LONGEVITY_STAGES, idx - 1, junk)]

bazi_changsheng_stage(stem_idx, branch_idx, old, junk) ==
    IF stem_idx < 0 \/ stem_idx > 9 \/ branch_idx < 0 \/ branch_idx > 11 THEN old
    ELSE changsheng_out(
            changsheng_offset(Rd(LONGEVITY_START, stem_idx, junk),
                              Rd(STEM_POLARITY, stem_idx, junk), branch_idx) + 1,
            junk)

\* the fields of *out from the locals stage_idx and stage_name
life_stage_out(cs, junk) ==
    [index          |-> cs.stage_idx,
     chinese        |-> cs.stage_name,
     english        |-> Rd(LONGEVITY_STAGES_EN, cs.stage_idx - 1, junk),
     vietnamese     |-> Rd(LONGEVITY_STAGES_VI, cs.stage_idx - 1, junk),
     strength_class |-> IF cs.stage_idx <= 5 THEN "strong" ELSE "weak"]

\* stage_idx and stage_name are uninitialised before the inner call
bazi_life_stage_detail(stem_idx, branch_idx, old, junk) ==
    IF stem_idx < 0 \/ stem_idx > 9 \/ branch_idx < 0 \/ branch_idx > 11 THEN old
    ELSE life_stage_out(
            bazi_changsheng_stage(stem_idx, branch_idx,
                                  [stage_idx |-> junk, stage_name |-> junk], junk),
            junk)

(***************************************************************************)
(* The lookup functions, one call at a time, with arguments inside and     *)
(* outside their ranges.                                                   *)
(***************************************************************************)
Junks == {-7, 3}

\* what the caller's output parameters hold before the call
OldPair == [stem_idx |-> -5, branch_idx |-> -5]

OldStage == [stage_idx |-> -5, stage_name |-> "old"]

OldDetail ==
    [index |-> -5, chinese |-> "old", english |-> "old", vietnamese |-> "old",
     strength_class |-> "old"]

LookupCalls ==
    {[op |-> f, a |-> a, b |-> 0, junk |-> k] :
        f \in {"bazi_stem_element", "bazi_stem_polarity"}, a \in -2 .. 11, k \in Junks}
    \cup {[op |-> "bazi_branch_element", a |-> a, b |-> 0, junk |-> k] :
            a \in -2 .. 13, k \in Junks}
    \cup {[op |-> "bazi_element_relation", a |-> a, b |-> b, junk |-> k] :
            a \in -1 .. 5, b \in -1 .. 5, k \in Junks}
    \cup {[op |-> "bazi_ten_god", a |-> a, b |-> b, junk |-> k] :
            a \in -1 .. 10, b \in -1 .. 10, k \in Junks}
    \cup {[op |-> f, a |-> a, b |-> 0, junk |-> k] :
            f \in {"bazi_nayin_for_cycle", "bazi_ganzhi_from_cycle"},
            a \in -1 .. 62, k \in Junks}
    \cup {[op |-> f, a |-> a, b |-> b, junk |-> k] :
            f \in {"bazi_changsheng_stage", "bazi_life_stage_detail"},
            a \in -1 .. 10, b \in -1 .. 12, k \in Junks}

InitLookup ==
    /\ fn_in \in LookupCalls
    /\ fn_out = <<>>
    /\ pc = "call"
    /\ scan = NoScan
    /\ MachineIdle

\* the call fn_in.op returns result
Returns(op, result) ==
    /\ pc = "call"
    /\ fn_in.op = op
    /\ fn_out' = <<result>>
    /\ pc' = "returned"
    /\ UNCHANGED <<fn_in, scan, machine_vars>>

CallStemElement ==
    Returns("bazi_stem_element", bazi_stem_element(fn_in.a, fn_in.junk))

CallStemPolarity ==
    Returns("bazi_stem_polarity", bazi_stem_polarity(fn_in.a, fn_in.junk))

CallBranchElement ==
    Returns("bazi_branch_element", bazi_branch_element(fn_in.a, fn_in.junk))

CallElementRelation ==
    Returns("bazi_element_relation", bazi_element_relation(fn_in.a, fn_in.b, fn_in.junk))

CallTenGod ==
    Returns("bazi_ten_god", bazi_ten_god(fn_in.a, fn_in.b, fn_in.junk))

CallNayin ==
    Returns("bazi_nayin_for_cycle", bazi_nayin_for_cycle(fn_in.a, fn_in.junk))

CallGanzhi ==
    Returns("bazi_ganzhi_from_cycle", bazi_ganzhi_from_cycle(fn_in.a, OldPair))

CallChangsheng ==
    Returns("bazi_changsheng_stage",
            bazi_changsheng_stage(fn_in.a, fn_in.b, OldStage, fn_in.junk))

CallLifeStage ==
    Returns("bazi_life_stage_detail",
            bazi_life_stage_detail(fn_in.a, fn_in.b, OldDetail, fn_in.junk))

NextLookup ==
    \/ CallStemElement
    \/ CallStemPolarity
    \/ CallBranchElement
    \/ CallElementRelation
    \/ CallTenGod
    \/ CallNayin
    \/ CallGanzhi
    \/ CallChangsheng
    \/ CallLifeStage

SpecLookup == InitLookup /\ [][NextLookup]_vars

\* C11: for all elements a, b in 0..4 bazi_element_relation(a, b) is in
\* 0..4; it is 0 exactly when a = b; it is 1 exactly when the relation of
\* (b, a) is 2; and it is 3 exactly when the relation of (b, a) is 4.
C11_RelationAntisymmetric ==
    (Called /\ fn_in.op = "bazi_element_relation" /\ fn_in.a \in 0 .. 4 /\ fn_in.b \in 0 .. 4)
        => /\ fn_out[1] \in 0 .. 4
           /\ (fn_out[1] = 0) <=> (fn_in.a = fn_in.b)
           /\ (fn_out[1] = 1) <=> (bazi_element_relation(fn_in.b, fn_in.a, fn_in.junk) = 2)
           /\ (fn_out[1] = 3) <=> (bazi_element_relation(fn_in.b, fn_in.a, fn_in.junk) = 4)

\* Wood against Earth: Wood controls Earth
C11_Witness ==
    /\ Called
    /\ fn_in.op = "bazi_element_relation"
    /\ fn_in.a = WOOD
    /\ fn_in.b = EARTH
    /\ fn_out[1] = 3

BadStem(s) == s < 0 \/ s > 9

BadBranch(b) == b < 0 \/ b > 11

\* C16: a lookup called with a stem outside 0..9, a branch outside 0..11, an
\* element outside 0..4 or a cycle outside 1..60 reads no table, whatever a
\* read outside a table would give: the element and polarity lookups and
\* bazi_element_relation return -1, bazi_ten_god the empty string,
\* bazi_nayin_for_cycle null, and bazi_ganzhi_from_cycle,
\* bazi_changsheng_stage and bazi_life_stage_detail leave their outputs as
\* they were.
C16_LookupsFailLocally ==
    Called
        => /\ (fn_in.op \in {"bazi_stem_element", "bazi_stem_polarity"} /\ BadStem(fn_in.a))
                => fn_out[1] = -1
           /\ (fn_in.op = "bazi_branch_element" /\ BadBranch(fn_in.a))
                => fn_out[1] = -1
           /\ (fn_in.op = "bazi_element_relation"
                    /\ (fn_in.a \notin 0 .. 4 \/ fn_in.b \notin 0 .. 4))
                => fn_out[1] = -1
           /\ (fn_in.op = "bazi_ten_god" /\ (BadStem(fn_in.a) \/ BadStem(fn_in.b)))
                => fn_out[1] = ""
           /\ (fn_in.op = "bazi_nayin_for_cycle" /\ fn_in.a \notin 1 .. 60)
                => fn_out[1] = NULL
           /\ (fn_in.op = "bazi_ganzhi_from_cycle" /\ fn_in.a \notin 1 .. 60)
                => fn_out[1] = OldPair
           /\ (fn_in.op = "bazi_changsheng_stage" /\ (BadStem(fn_in.a) \/ BadBranch(fn_in.b)))
                => fn_out[1] = OldStage
           /\ (fn_in.op = "bazi_life_stage_detail" /\ (BadStem(fn_in.a) \/ BadBranch(fn_in.b)))
                => fn_out[1] = OldDetail

\* stem 10, one past the table, has been looked up
C16_Witness ==
    /\ Called
    /\ fn_in.op = "bazi_stem_element"
    /\ fn_in.a = 10
    /\ fn_in.junk = 3
    /\ fn_out[1] = -1

TenGodLabels ==
    {"BiJian", "JieCai", "PianYin", "ZhengYin", "ShiShen", "ShangGuan",
     "PianCai", "ZhengCai", "QiSha", "ZhengGuan"}

\* C18: for valid stems dm and t, bazi_ten_god(dm, t) is the name in the row
\* of the relation of their elements and the column of equal or unequal
\* polarity, never the empty string; for a fixed dm the ten stems t get the
\* ten names, each once; and bazi_ten_god(dm, dm) is the name of row 0,
\* equal polarity.
C18_TenGodBijection ==
    (Called /\ fn_in.op = "bazi_ten_god" /\ ~BadStem(fn_in.a) /\ ~BadStem(fn_in.b))
        => /\ fn_out[1] # ""
           /\ fn_out[1] =
                TEN_GOD_NAMES[bazi_element_relation(STEM_ELEMENT[fn_in.a],
                                                    STEM_ELEMENT[fn_in.b], fn_in.junk)]
                             [IF STEM_POLARITY[fn_in.a] = STEM_POLARITY[fn_in.b] THEN 0 ELSE 1]
           /\ {bazi_ten_god(fn_in.a, t, fn_in.junk) : t \in 0 .. 9} = TenGodLabels
           /\ \A t \in 0 .. 9 :
                 bazi_ten_god(fn_in.a, t, fn_in.junk) = fn_out[1] => t = fn_in.b
           /\ fn_in.a = fn_in.b => fn_out[1] = "BiJian"

\* a Yin Water day master against Yang Wood
C18_Witness ==
    /\ Called
    /\ fn_in.op = "bazi_ten_god"
    /\ fn_in.a = 9
    /\ fn_in.b = 0
    /\ fn_out[1] = "ShangGuan"

(***************************************************************************)
(* bazi.c: interaction detection.  pillars[i][0] is the stem and           *)
(* pillars[i][1] the branch of pillar i (0 year, 1 month, 2 day, 3 hour).  *)
(* A detection function fills the caller's results array: the model keeps  *)
(* every write as <<slot, event>>, in the order the writes happen, so a    *)
(* write past the capacity would show.                                     *)
(***************************************************************************)
Rows(s) == ToArr([k \in DOMAIN s |-> ToArr(s[k])])

BRANCH_HIDDEN_STEMS ==
    Rows(<<<<9, -1, -1>>, <<5, 9, 7>>, <<0, 2, 4>>, <<1, -1, -1>>, <<4, 1, 9>>, <<2, 4, 6>>,
           <<3, 5, -1>>, <<5, 3, 1>>, <<6, 8, 4>>, <<7, -1, -1>>, <<4, 7, 3>>, <<8, 0, -1>>>>)

BRANCH_HIDDEN_COUNT == ToArr(<<1, 3, 3, 1, 3, 3, 2, 3, 3, 1, 3, 2>>)

STEM_TRANSFORMATIONS ==
    Rows(<<<<0, 5, EARTH>>, <<1, 6, METAL>>, <<2, 7, WATER>>, <<3, 8, WOOD>>, <<4, 9, FIRE>>>>)

LIU_HE == Rows(<<<<0, 1>>, <<2, 11>>, <<3, 10>>, <<4, 9>>, <<5, 8>>, <<6, 7>>>>)

LIU_CHONG == Rows(<<<<0, 6>>, <<1, 7>>, <<2, 8>>, <<3, 9>>, <<4, 10>>, <<5, 11>>>>)

HARM_PAIRS == Rows(<<<<0, 7>>, <<1, 6>>, <<2, 5>>, <<3, 4>>, <<8, 11>>, <<9, 10>>>>)

SELF_PUNISH_BRANCHES == ToArr(<<4, 6, 9, 11>>)

UNCIVIL_PUNISH_PAIRS == Rows(<<<<0, 3>>>>)

BULLY_PUNISH_PAIRS ==
    Rows(<<<<2, 5>>, <<5, 8>>, <<2, 8>>, <<1, 10>>, <<10, 7>>, <<1, 7>>>>)

adjacent == Rows(<<<<0, 1>>, <<1, 2>>, <<2, 3>>>>)

RECURSIVE pair_in_set_from(_, _, _, _, _)
pair_in_set_from(a, b, set, count, i) ==
    IF i >= count THEN 0
    ELSE IF (a = set[i][0] /\ b = set[i][1]) \/ (a = set[i][1] /\ b = set[i][0]) THEN 1
    ELSE pair_in_set_from(a, b, set, count, i + 1)

pair_in_set(a, b, set, count) == pair_in_set_from(a, b, set, count, 0)

RECURSIVE stem_transformation_from(_, _, _)
stem_transformation_from(s1, s2, i) ==
    IF i >= 5 THEN -1
    ELSE IF \/ (s1 = STEM_TRANSFORMATIONS[i][0] /\ s2 = STEM_TRANSFORMATIONS[i][1])
            \/ (s1 = STEM_TRANSFORMATIONS[i][1] /\ s2 = STEM_TRANSFORMATIONS[i][0])
         THEN STEM_TRANSFORMATIONS[i][2]
    ELSE stem_transformation_from(s1, s2, i + 1)

stem_transformation_target(s1, s2) == stem_transformation_from(s1, s2, 0)

is_self_punish_branch(b) == IF \E i \in 0 .. 3 : SELF_PUNISH_BRANCHES[i] = b THEN 1 ELSE 0

obstruction_between(pillars, lo, hi, e1, e2) ==
    IF hi - lo <= 1 THEN 0
    ELSE IF \E mid \in lo + 1 .. hi - 1 :
                CONTROL_MAP[STEM_ELEMENT[pillars[mid][0]]] \in {e1, e2}
         THEN 1
    ELSE 0

check_obstruction(pillars, p1, p2) ==
    obstruction_between(pillars, IF p1 < p2 THEN p1 ELSE p2, IF p1 > p2 THEN p1 ELSE p2,
                        STEM_ELEMENT[pillars[p1][0]], STEM_ELEMENT[pillars[p2][0]])

check_severe_clash(pillars, target_element) ==
    IF \E i \in 0 .. 3 :
          /\ CONTROL_MAP[STEM_ELEMENT[pillars[i][0]]] = target_element
          /\ (i = 1 \/ STEM_POLARITY[pillars[i][0]] # STEM_POLARITY[pillars[2][0]])
    THEN 1
    ELSE 0

\* the results array before the first write
NoResults == [count |-> 0, results |-> <<>>, returned |-> FALSE]

\* results[count] = event; count++
write(st, event) ==
    [st EXCEPT !.count = st.count + 1, !.results = Append(st.results, <<st.count, event>>)]

stem_combinations_body(pillars, i, j, s1, s2, target, st) ==
    IF target >= 0
    THEN write(st, [pair_a |-> i, pair_b |-> j, stem_a |-> s1, stem_b |-> s2,
                    target_element |-> target])
    ELSE st

RECURSIVE stem_combinations_j(_, _, _, _, _)
stem_combinations_j(pillars, max_results, i, j, st) ==
    IF ~(j < 4 /\ st.count < max_results) THEN st
    ELSE stem_combinations_j(pillars, max_results, i, j + 1,
            stem_combinations_body(pillars, i, j, pillars[i][0], pillars[j][0],
                stem_transformation_target(pillars[i][0], pillars[j][0]), st))

RECURSIVE stem_combinations_i(_, _, _, _)
stem_combinations_i(pillars, max_results, i, st) ==
    IF ~(i < 4 /\ st.count < max_results) THEN st
    ELSE stem_combinations_i(pillars, max_results, i + 1,
            stem_combinations_j(pillars, max_results, i, i + 1, st))

bazi_detect_stem_combinations(pillars, max_results) ==
    stem_combinations_i(pillars, max_results, 0, NoResults)

leading_present_stems_only(pillars, i, j, target) ==
    IF \E k \in 0 .. 3 : k # i /\ k # j /\ STEM_ELEMENT[pillars[k][0]] = target
    THEN 1
    ELSE 0

leading_present(pillars, i, j, target) ==
    IF \/ \E k \in 0 .. 3 : k # i /\ k # j /\ STEM_ELEMENT[pillars[k][0]] = target
       \/ \E k \in 0 .. 3 : \E h \in 0 .. BRANCH_HIDDEN_COUNT[pillars[k][1]] - 1 :
             /\ BRANCH_HIDDEN_STEMS[pillars[k][1]][h] >= 0
             /\ STEM_ELEMENT[BRANCH_HIDDEN_STEMS[pillars[k][1]][h]] = target
    THEN 1
    ELSE 0

transformation_status_flat(proximity_score, month_support, leading, severely_clashed, blocked) ==
    IF /\ proximity_score = 2
       /\ month_support = 1
       /\ (leading = 1 \/ severely_clashed = 0)
       /\ blocked = 0
    THEN [status |-> "Hoa (successful)", confidence |-> 85]
    ELSE IF proximity_score >= 1 /\ (month_support = 1 \/ leading = 1) /\ blocked = 0
    THEN [status |-> "Hop (bound)", confidence |-> 65]
    ELSE IF blocked = 1
    THEN [status |-> "Blocked", confidence |-> 10]
    ELSE [status |-> "Hop (bound)", confidence |-> 40]

transformation_status(proximity_score, month_support, leading, severely_clashed, blocked) ==
    IF /\ proximity_score = 2
       /\ month_support = 1
       /\ (leading = 1 \/ severely_clashed = 0)
       /\ blocked = 0
    THEN [status |-> "Hoa (successful)", confidence |-> IF leading = 1 THEN 95 ELSE 85]
    ELSE IF proximity_score >= 1 /\ (month_support = 1 \/ leading = 1) /\ blocked = 0
    THEN [status |-> "Hop (bound)", confidence |-> 65]
    ELSE IF blocked = 1
    THEN [status |-> "Blocked", confidence |-> 10]
    ELSE [status |-> "Hop (bound)", confidence |-> 40]

suppress_by_clash_kept_confidence(sc, severely_clashed) ==
    IF sc.status = "Hoa (successful)" /\ severely_clashed = 1
    THEN [status |-> "Hoa (suppressed by clash)", confidence |-> sc.confidence]
    ELSE sc

suppress_by_clash(sc, severely_clashed) ==
    IF sc.status = "Hoa (successful)" /\ severely_clashed = 1
    THEN [status |-> "Hoa (suppressed by clash)",
          confidence |-> IF sc.confidence - 30 < 20 THEN 20 ELSE sc.confidence - 30]
    ELSE sc

transformation_record(i, j, s1, s2, target, month_support, leading, blocked, severely_clashed, proximity_score, sc) ==
    [pair_a |-> i, pair_b |-> j, stem_a |-> s1, stem_b |-> s2, target_element |-> target,
     month_support |-> month_support, leading_present |-> leading, blocked |-> blocked,
     severely_clashed |-> severely_clashed, proximity_score |-> proximity_score,
     status |-> sc.status, confidence |-> sc.confidence]

transformation_scored(i, j, s1, s2, target, month_support, leading, blocked, severely_clashed, proximity_score) ==
    transformation_record(i, j, s1, s2, target, month_support, leading, blocked,
        severely_clashed, proximity_score,
        suppress_by_clash(
            transformation_status(proximity_score, month_support, leading,
                                  severely_clashed, blocked),
            severely_clashed))

transformations_body(pillars, month_branch_elem, i, j, target, st) ==
    IF target < 0 THEN st
    ELSE write(st,
            transformation_scored(i, j, pillars[i][0], pillars[j][0], target,
                IF month_branch_elem = target THEN 1 ELSE 0,
                leading_present(pillars, i, j, target),
                check_obstruction(pillars, i, j),
                check_severe_clash(pillars, target),
                IF pair_in_set(i, j, adjacent, 3) = 1 THEN 2 ELSE 1))

RECURSIVE transformations_j(_, _, _, _, _, _)
transformations_j(pillars, max_results, month_branch_elem, i, j, st) ==
    IF ~(j < 4 /\ st.count < max_results) THEN st
    ELSE transformations_j(pillars, max_results, month_branch_elem, i, j + 1,
            transformations_body(pillars, month_branch_elem, i, j,
                stem_transformation_target(pillars[i][0], pillars[j][0]), st))

RECURSIVE transformations_i(_, _, _, _, _)
transformations_i(pillars, max_results, month_branch_elem, i, st) ==
    IF ~(i < 4 /\ st.count < max_results) THEN st
    ELSE transformations_i(pillars, max_results, month_branch_elem, i + 1,
            transformations_j(pillars, max_results, month_branch_elem, i, i + 1, st))

bazi_detect_transformations(pillars, max_results) ==
    transformations_i(pillars, max_results, BRANCH_ELEMENT[pillars[1][1]], 0, NoResults)

phuc_ngam_event(match_type, i, dyn_stem, dyn_branch, confidence) ==
    [match_type |-> match_type, natal_pillar |-> i, dynamic_stem_idx |-> dyn_stem,
     dynamic_branch_idx |-> dyn_branch, confidence |-> confidence]

phuc_ngam_body(i, s, b, dyn_stem, dyn_branch, st) ==
    IF s = dyn_stem /\ b = dyn_branch
    THEN write(st, phuc_ngam_event("exact", i, dyn_stem, dyn_branch, IF i = 1 THEN 95 ELSE 90))
    ELSE IF b = dyn_branch
    THEN write(st, phuc_ngam_event("branch", i, dyn_stem, dyn_branch, IF i = 1 THEN 70 ELSE 60))
    ELSE st

RECURSIVE phuc_ngam_i(_, _, _, _, _, _)
phuc_ngam_i(pillars, dyn_stem, dyn_branch, max_results, i, st) ==
    IF ~(i < 4 /\ st.count < max_results) THEN st
    ELSE phuc_ngam_i(pillars, dyn_stem, dyn_branch, max_results, i + 1,
            phuc_ngam_body(i, pillars[i][0], pillars[i][1], dyn_stem, dyn_branch, st))

bazi_detect_phuc_ngam(pillars, dyn_stem, dyn_branch, max_results) ==
    phuc_ngam_i(pillars, dyn_stem, dyn_branch, max_results, 0, NoResults)

punishment_severity_month_first(i, j) ==
    IF i = 1 \/ j = 1 THEN 70 ELSE IF i = 2 \/ j = 2 THEN 80 ELSE 50

punishment_severity(i, j) ==
    IF i = 2 \/ j = 2 THEN 80 ELSE IF i = 1 \/ j = 1 THEN 70 ELSE 50

punishment(punishment_type, i, j, bi, bj, severity, life_area_1, life_area_2) ==
    [punishment_type |-> punishment_type, pair_a |-> i, pair_b |-> j, branch_a |-> bi,
     branch_b |-> bj, severity |-> severity, life_area_1 |-> life_area_1,
     life_area_2 |-> life_area_2]

\* one if-block of the loop body, never entered once the function has
\* returned: the write, count++, and the return when the array is full
\* (the first variant is a block without that return)
punish_step_no_return(st, max_results, found, event) ==
    IF st.returned \/ ~found THEN st
    ELSE write(st, event)

punish_step(st, max_results, found, event) ==
    IF st.returned \/ ~found THEN st
    ELSE [write(st, event) EXCEPT !.returned = st.count + 1 >= max_results]

punishments_body(max_results, i, j, bi, bj, severity, st) ==
    punish_step(
        punish_step(
            punish_step(
                punish_step(st, max_results,
                    bi = bj /\ is_self_punish_branch(bi) = 1,
                    punishment("Tu hinh (Self-punish)", i, j, bi, bj, severity,
                               "health", "self-sabotage")),
                max_results,
                pair_in_set(bi, bj, UNCIVIL_PUNISH_PAIRS, 1) = 1,
                punishment("Vo le chi hinh (Uncivil)", i, j, bi, bj, severity,
                           "relationship", "secrets")),
            max_results,
            pair_in_set(bi, bj, BULLY_PUNISH_PAIRS, 6) = 1,
            punishment("Y the chi hinh (Bully)", i, j, bi, bj, severity,
                       "career", "power struggles")),
        max_results,
        pair_in_set(bi, bj, HARM_PAIRS, 6) = 1,
        punishment("Hai (Harm)", i, j, bi, bj, severity, "health", "relationship"))

RECURSIVE punishments_j(_, _, _, _, _)
punishments_j(pillars, max_results, i, j, st) ==
    IF st.returned \/ ~(j < 4 /\ st.count < max_results) THEN st
    ELSE punishments_j(pillars, max_results, i, j + 1,
            punishments_body(max_results, i, j, pillars[i][1], pillars[j][1],
                             punishment_severity(i, j), st))

RECURSIVE punishments_i(_, _, _, _)
punishments_i(pillars, max_results, i, st) ==
    IF st.returned \/ ~(i < 4 /\ st.count < max_results) THEN st
    ELSE punishments_i(pillars, max_results, i + 1,
            punishments_j(pillars, max_results, i, i + 1, st))

bazi_detect_punishments(pillars, max_results) ==
    punishments_i(pillars, max_results, 0, NoResults)

(***************************************************************************)
(* The detection functions, one call at a time, over charts and result     *)
(* capacities.                                                             *)
(***************************************************************************)
MaxCapacity == 4

Chart(stems, branches) == ToArr([i \in 1 .. 4 |-> ToArr(<<stems[i], branches[i]>>)])

TransformationStems == {0, 1, 2, 5, 6}

PunishmentBranches == 0 .. 7

DetectCall(op, stems, branches, n, ds, db) ==
    [op |-> op, pillars |-> Chart(stems, branches), max_results |-> n,
     dyn_stem |-> ds, dyn_branch |-> db]

DetectInputs ==
    \/ \E s \in [1 .. 4 -> TransformationStems], n \in 0 .. MaxCapacity :
          fn_in = DetectCall("bazi_detect_stem_combinations", s, <<0, 0, 0, 0>>, n, -1, -1)
    \/ \E s \in [1 .. 4 -> TransformationStems], m \in 0 .. 11, o \in {3, 8},
           n \in 0 .. MaxCapacity :
          fn_in = DetectCall("bazi_detect_transformations", s, <<o, m, o, o>>, n, -1, -1)
    \/ \E y \in 0 .. 9, m \in 0 .. 9, d \in {0, 1}, h \in {0, 1}, mb \in 0 .. 11 :
          fn_in = DetectCall("bazi_detect_transformations", <<y, m, d, h>>,
                             <<3, mb, 3, 3>>, MaxCapacity, -1, -1)
    \/ \E s \in [1 .. 4 -> {0, 1}], b \in [1 .. 4 -> {0, 1}], ds \in {0, 1}, db \in {0, 1},
           n \in 0 .. MaxCapacity :
          fn_in = DetectCall("bazi_detect_phuc_ngam", s, b, n, ds, db)
    \/ \E b \in [1 .. 4 -> PunishmentBranches], n \in 0 .. MaxCapacity :
          fn_in = DetectCall("bazi_detect_punishments", <<0, 0, 0, 0>>, b, n, -1, -1)

InitDetect ==
    /\ DetectInputs
    /\ fn_out = <<>>
    /\ pc = "call"
    /\ scan = NoScan
    /\ MachineIdle

\* what the caller sees after the call: the return value, the writes made to
\* its results array, and its pillars array
detect_return(st, pillars) == [count |-> st.count, results |-> st.results, pillars |-> pillars]

CallDetectStemCombinations ==
    Returns("bazi_detect_stem_combinations",
            detect_return(bazi_detect_stem_combinations(fn_in.pillars, fn_in.max_results),
                          fn_in.pillars))

CallDetectTransformations ==
    Returns("bazi_detect_transformations",
            detect_return(bazi_detect_transformations(fn_in.pillars, fn_in.max_results),
                          fn_in.pillars))

CallDetectPhucNgam ==
    Returns("bazi_detect_phuc_ngam",
            detect_return(bazi_detect_phuc_ngam(fn_in.pillars, fn_in.dyn_stem,
                                                fn_in.dyn_branch, fn_in.max_results),
                          fn_in.pillars))

CallDetectPunishments ==
    Returns("bazi_detect_punishments",
            detect_return(bazi_detect_punishments(fn_in.pillars, fn_in.max_results),
                          fn_in.pillars))

NextDetect ==
    \/ CallDetectStemCombinations
    \/ CallDetectTransformations
    \/ CallDetectPhucNgam
    \/ CallDetectPunishments

SpecDetect == InitDetect /\ [][NextDetect]_vars

\* a capacity no chart can fill: 6 pillar pairs, at most 4 events each
Unlimited == 6 * 4

\* the events of the call in with capacity n
DetectWith(in, n) ==
    CASE in.op = "bazi_detect_stem_combinations" ->
            bazi_detect_stem_combinations(in.pillars, n)
      [] in.op = "bazi_detect_transformations" ->
            bazi_detect_transformations(in.pillars, n)
      [] in.op = "bazi_detect_phuc_ngam" ->
            bazi_detect_phuc_ngam(in.pillars, in.dyn_stem, in.dyn_branch, n)
      [] in.op = "bazi_detect_punishments" ->
            bazi_detect_punishments(in.pillars, n)

TotalEvents == DetectWith(fn_in, Unlimited).count

Sufficient == fn_in.max_results >= TotalEvents

\* the events written by the call, without their slots
Reported == {fn_out[1].results[k][2] : k \in 1 .. Len(fn_out[1].results)}

\* the target element of the canonical pair {s1, s2}
IsCanonicalPair(s1, s2, target) ==
    \E r \in 0 .. 4 :
        /\ {s1, s2} = {STEM_TRANSFORMATIONS[r][0], STEM_TRANSFORMATIONS[r][1]}
        /\ target = STEM_TRANSFORMATIONS[r][2]

\* pillars i and i + 1 carry a canonical pair whose target is the element of
\* the month branch
SupportedAdjacentPair(i, target) ==
    /\ IsCanonicalPair(fn_in.pillars[i][0], fn_in.pillars[i + 1][0], target)
    /\ BRANCH_ELEMENT[fn_in.pillars[1][1]] = target

Successful(i, target) ==
    \E e \in Reported :
        /\ e.pair_a = i
        /\ e.pair_b = i + 1
        /\ e.target_element = target
        /\ e.status = "Hoa (successful)"
        /\ e.confidence = (IF leading_present(fn_in.pillars, i, i + 1, target) = 1 THEN 95 ELSE 85)

\* C12 as stated: whenever two adjacent pillars carry a canonical pair and the
\* month branch has the target element (adjacent pillars have no stem between
\* them), bazi_detect_transformations with room for every event reports the
\* pair as "Hoa (successful)", confidence 95 with a leading stem and 85
\* without.
C12_SuccessfulAsStated ==
    (Called /\ fn_in.op = "bazi_detect_transformations" /\ Sufficient)
        => \A i \in 0 .. 2 : \A target \in WOOD .. WATER :
              SupportedAdjacentPair(i, target) => Successful(i, target)

\* C12: whenever two adjacent pillars carry a canonical pair, the month branch
\* has the target element, and no pillar stem severely clashes the target
\* (no stem whose element controls the target stands in the month pillar or
\* has the polarity opposite to the Day stem's), bazi_detect_transformations
\* with room for every event reports the pair as "Hoa (successful)",
\* confidence 95 with a leading stem and 85 without.
C12_SuccessfulUnlessClashed ==
    (Called /\ fn_in.op = "bazi_detect_transformations" /\ Sufficient)
        => \A i \in 0 .. 2 : \A target \in WOOD .. WATER :
              (SupportedAdjacentPair(i, target) /\ check_severe_clash(fn_in.pillars, target) = 0)
                  => Successful(i, target)

\* a supported adjacent pair without a clash has been reported
C12_Witness ==
    /\ Called
    /\ fn_in.op = "bazi_detect_transformations"
    /\ Sufficient
    /\ \E i \in 0 .. 2 : \E target \in WOOD .. WATER :
          /\ SupportedAdjacentPair(i, target)
          /\ check_severe_clash(fn_in.pillars, target) = 0
          /\ Successful(i, target)

SelfPunishing == {4, 6, 9, 11}

PillarPairs == {<<i, j>> \in (0 .. 3) \X (0 .. 3) : i < j}

\* the pillar pairs that share a self-punishing branch
SelfPairs ==
    {p \in PillarPairs :
        /\ fn_in.pillars[p[1]][1] = fn_in.pillars[p[2]][1]
        /\ fn_in.pillars[p[1]][1] \in SelfPunishing}

SelfEvents ==
    {k \in 1 .. Len(fn_out[1].results) :
        fn_out[1].results[k][2].punishment_type = "Tu hinh (Self-punish)"}

\* C13: when exactly two pillars share a self-punishing branch (4, 6, 9 or
\* 11), bazi_detect_punishments with room for every event reports exactly one
\* Self-Punishment event; it names that pair, and its severity is 80 if the
\* Day pillar is one of the two, else 70 if the Month pillar is, else 50.
C13_OneSelfPunishment ==
    (Called /\ fn_in.op = "bazi_detect_punishments" /\ Sufficient /\ Cardinality(SelfPairs) = 1)
        => /\ Cardinality(SelfEvents) = 1
           /\ \A k \in SelfEvents : \A p \in SelfPairs :
                 /\ fn_out[1].results[k][2].pair_a = p[1]
                 /\ fn_out[1].results[k][2].pair_b = p[2]
                 /\ fn_out[1].results[k][2].severity =
                        (IF 2 \in {p[1], p[2]} THEN 80
                         ELSE IF 1 \in {p[1], p[2]} THEN 70
                         ELSE 50)

\* the Month and Hour pillars share a self-punishing branch
C13_Witness ==
    /\ Called
    /\ fn_in.op = "bazi_detect_punishments"
    /\ Sufficient
    /\ SelfPairs = {<<1, 3>>}
    /\ \E k \in SelfEvents : fn_out[1].results[k][2].severity = 70

PunishmentTypes ==
    {"Tu hinh (Self-punish)", "Vo le chi hinh (Uncivil)", "Y the chi hinh (Bully)",
     "Hai (Harm)"}

\* an event of type t has been reported for pillar pair p
ReportedFor(p, t) ==
    \E e \in Reported : e.pair_a = p[1] /\ e.pair_b = p[2] /\ e.punishment_type = t

\* an event of none of the punishment types has been reported for pair p
OtherReportedFor(p) ==
    \E e \in Reported :
        e.pair_a = p[1] /\ e.pair_b = p[2] /\ e.punishment_type \notin PunishmentTypes

InTable(p, set, count) ==
    pair_in_set(fn_in.pillars[p[1]][1], fn_in.pillars[p[2]][1], set, count) = 1

\* C14: for every pillar pair, branch-interaction detection with room for
\* every event reports an event for each interaction type whose table holds
\* the pair's branches: Self-Punishment, Uncivil, Bully, Harm, and also Six
\* Combination and Six Clash.
C14_EveryTableReported ==
    (Called /\ fn_in.op = "bazi_detect_punishments" /\ Sufficient)
        => \A p \in PillarPairs :
              /\ p \in SelfPairs => ReportedFor(p, "Tu hinh (Self-punish)")
              /\ InTable(p, UNCIVIL_PUNISH_PAIRS, 1) => ReportedFor(p, "Vo le chi hinh (Uncivil)")
              /\ InTable(p, BULLY_PUNISH_PAIRS, 6) => ReportedFor(p, "Y the chi hinh (Bully)")
              /\ InTable(p, HARM_PAIRS, 6) => ReportedFor(p, "Hai (Harm)")
              /\ InTable(p, LIU_HE, 6) => OtherReportedFor(p)
              /\ InTable(p, LIU_CHONG, 6) => OtherReportedFor(p)

Least(a, b) == IF a < b THEN a ELSE b

\* the pillar (pair) an event is about, as a number that grows in the order
\* (0,1), (0,2), (0,3), (1,2), (1,3), (2,3)
PairRank(e) ==
    IF "natal_pillar" \in DOMAIN e THEN e.natal_pillar ELSE 4 * e.pair_a + e.pair_b

\* C15: a detection function called with capacity n >= 0 returns
\* min(n, total number of events), writes slots 0 .. count-1 and no other
\* (none when n = 0), writes there the first count events of the sequence it
\* produces with unlimited capacity, which runs through the pillar pairs in
\* the order (0,1), (0,2), (0,3), (1,2), (1,3), (2,3), and leaves pillars as
\* it was.
C15_CapacityRespected ==
    Called
        => /\ fn_out[1].count = Least(fn_in.max_results, TotalEvents)
           /\ Len(fn_out[1].results) = fn_out[1].count
           /\ \A k \in 1 .. Len(fn_out[1].results) :
                 /\ fn_out[1].results[k][1] = k - 1
                 /\ fn_out[1].results[k][1] < fn_in.max_results
                 /\ fn_out[1].results[k] = DetectWith(fn_in, Unlimited).results[k]
           /\ \A k \in 1 .. TotalEvents - 1 :
                 PairRank(DetectWith(fn_in, Unlimited).results[k][2])
                    <= PairRank(DetectWith(fn_in, Unlimited).results[k + 1][2])
           /\ fn_out[1].pillars = fn_in.pillars

\* a call that stopped at capacity 1 inside a pair with two events
C15_Witness ==
    /\ Called
    /\ fn_in.op = "bazi_detect_punishments"
    /\ fn_in.max_results = 1
    /\ fn_in.pillars[0][1] = 2
    /\ fn_in.pillars[1][1] = 5
    /\ TotalEvents >= 2
    /\ fn_out[1].count = 1

(***************************************************************************)
(* from_solar_date_range.  The function calls compute_new_moons and        *)
(* compute_solar_terms once and from_solar_date once per day: the call of  *)
(* from_solar_date runs as the state machine above, on args the range      *)
(* loop sets up, while scan holds the locals of from_solar_date_range.     *)
(***************************************************************************)
RECURSIVE ascending(_)
ascending(S) == IF S = {} THEN <<>> ELSE <<MinOf(S)>> \o ascending(S \ {MinOf(S)})

\* the first max_count of the days, as the while loop meets them
events_kept(days, max_count) ==
    SubSeq(days, 1, IF Len(days) < max_count THEN Len(days) ELSE max_count)

new_moons_found(kept) ==
    [count  |-> Len(kept),
     out_ts |-> [k \in 1 .. Len(kept) |->
                    bisect_new_moon(kept[k], elongation(kept[k]), elongation(kept[k] + 1))]]

\* compute_new_moons as a function: count and out_ts[0 .. count-1]
compute_new_moons(start_year, end_year, max_count) ==
    new_moons_found(
        events_kept(
            ascending({jd \in swe_julday(start_year, 1, 1) .. swe_julday(end_year + 1, 1, 1) - 1 :
                          elongation(jd) < 0 /\ elongation(jd + 1) >= 0}),
            max_count))

solar_terms_found(kept) ==
    [count   |-> Len(kept),
     out_ts  |-> [k \in 1 .. Len(kept) |-> bisect_sun_crossing(kept[k], sun_lon(kept[k] + 1))],
     out_idx |-> [k \in 1 .. Len(kept) |-> sector_of(sun_lon(kept[k] + 1))]]

\* compute_solar_terms as a function: count, out_ts and out_idx
compute_solar_terms(start_year, end_year, max_count) ==
    solar_terms_found(
        events_kept(
            ascending({jd \in swe_julday(start_year, 1, 1) .. swe_julday(end_year + 1, 1, 1) - 1 :
                          sector_of(sun_lon(jd + 1)) # sector_of(sun_lon(jd))}),
            max_count))

SINGLE_BUF_LEN == 1024

MaxRangeDays == 2

RangeStarts == {[y |-> 2025, m |-> 3, d |-> 30], [y |-> 2025, m |-> 12, d |-> 31]}

RangeOffsets == {0, 28800, -18000, 43200, 50400}

RangeBufLens == {0, 2, 700, 4096}

RangeCalls ==
    {[start |-> s,
      end   |-> civil_from_days(days_from_civil(s.y, s.m, s.d) + n - 1),
      tz_offset_seconds |-> tz,
      out_buf_len |-> len] :
        s \in RangeStarts, n \in 0 .. MaxRangeDays, tz \in RangeOffsets, len \in RangeBufLens}

InitRange ==
    /\ fn_in \in RangeCalls
    /\ fn_out = <<>>
    /\ pc = "call"
    /\ scan = NoScan
    /\ MachineIdle

\* return v from from_solar_date_range, leaving elements in out_buf, closed
\* or not by the final bracket
RangeReturn(v, elements, closed) ==
    /\ fn_out' = <<[ret |-> v, elements |-> elements, closed |-> closed]>>
    /\ pc' = "returned"

\* lines 614-628, after the two ephemeris calls: the opening bracket and the
\* locals of the loop
RangeOpen(s_day, e_day, nm, st) ==
    IF nm.count < 2 \/ st.count < 1 \/ 1 >= fn_in.out_buf_len
    THEN RangeReturn(-1, <<>>, FALSE) /\ UNCHANGED scan
    ELSE /\ scan' = [phase |-> "range", day |-> s_day, e_day |-> e_day,
                     nm_sec |-> nm.out_ts, st_sec |-> st.out_ts, st_idx |-> st.out_idx,
                     total |-> 1, remaining |-> fn_in.out_buf_len - 1, first |-> 1,
                     elements |-> <<>>]
         /\ pc' = "range_loop"
         /\ UNCHANGED fn_out

\* lines 597-613: the years of the range and the ephemeris for them
RangeEphemeris(s_day, e_day, min_year, max_year) ==
    RangeOpen(s_day, e_day,
              compute_new_moons(min_year - 1, max_year + 1, EPHE_MAX_NEW_MOONS),
              compute_solar_terms(min_year - 1, max_year + 1, EPHE_MAX_SOLAR_TERMS))

\* lines 590-595: the empty range
RangeDays(s_day, e_day) ==
    IF s_day > e_day
    THEN RangeReturn(2, <<>>, fn_in.out_buf_len > 2) /\ UNCHANGED scan
    ELSE RangeEphemeris(s_day, e_day,
                        IF fn_in.start.y < fn_in.end.y THEN fn_in.start.y ELSE fn_in.end.y,
                        IF fn_in.start.y > fn_in.end.y THEN fn_in.start.y ELSE fn_in.end.y)

\* lines 585-628
RangeEnter ==
    /\ pc = "call"
    /\ RangeDays(days_from_civil(fn_in.start.y, fn_in.start.m, fn_in.start.d),
                 days_from_civil(fn_in.end.y, fn_in.end.m, fn_in.end.d))
    /\ UNCHANGED <<fn_in, machine_vars>>

\* noon UTC on the day
range_ts_ms(day) == day * 86400 + 12 * 3600

\* lines 630-637: the loop test and the call of from_solar_date
RangeDay ==
    /\ pc = "range_loop"
    /\ scan.day <= scan.e_day
    /\ args' = [timestamp_ms      |-> range_ts_ms(scan.day),
                tz_offset_seconds |-> fn_in.tz_offset_seconds,
                new_moons         |-> scan.nm_sec,
                solar_terms_ts    |-> scan.st_sec,
                solar_terms_idx   |-> scan.st_idx,
                out_buf_len       |-> SINGLE_BUF_LEN]
    /\ pc' = "start"
    /\ nm_ms' = EmptyArr
    /\ pts' = EmptyArr
    /\ periods' = EmptyArr
    /\ loc' = NoLocals
    /\ ret' = <<>>
    /\ out_buf' = FreshBuffer
    /\ writes' = EmptyArr
    /\ UNCHANGED <<fn_in, fn_out, scan>>

\* lines 648-650: the element is copied and the loop moves on
RangeCopy(sn, remaining, total) ==
    IF sn >= remaining
    THEN RangeReturn(-1, scan.elements, FALSE) /\ UNCHANGED scan
    ELSE /\ scan' = [scan EXCEPT !.day = @ + 1,
                                 !.first = 0,
                                 !.remaining = remaining - sn,
                                 !.total = total + sn,
                                 !.elements = Append(@, [ts_ms |-> args.timestamp_ms,
                                                         result |-> loc.result[1]])]
         /\ pc' = "range_loop"
         /\ UNCHANGED fn_out

\* lines 641-646: the comma before every element but the first
RangeComma(sn) ==
    IF scan.first = 0
    THEN IF 1 >= scan.remaining
         THEN RangeReturn(-1, scan.elements, FALSE) /\ UNCHANGED scan
         ELSE RangeCopy(sn, scan.remaining - 1, scan.total + 1)
    ELSE RangeCopy(sn, scan.remaining, scan.total)

\* lines 638-650: from_solar_date has returned sn
RangeCollect ==
    /\ pc = "done"
    /\ scan.phase = "range"
    /\ IF ret[1] < 0
       THEN RangeReturn(-1, scan.elements, FALSE) /\ UNCHANGED scan
       ELSE RangeComma(ret[1])
    /\ UNCHANGED <<fn_in, machine_vars>>

\* lines 630 and 652-656: the loop ends, the closing bracket
RangeClose ==
    /\ pc = "range_loop"
    /\ scan.day > scan.e_day
    /\ IF 1 >= scan.remaining
       THEN RangeReturn(-1, scan.elements, FALSE)
       ELSE RangeReturn(scan.total + 1, scan.elements, TRUE)
    /\ UNCHANGED <<fn_in, scan, machine_vars>>

NextRange ==
    \/ RangeEnter
    \/ RangeDay
    \/ Begin
    \/ BuildPrincipalTerms
    \/ BuildPeriods
    \/ TagPrincipal
    \/ FindZ11
    \/ FindZi
    \/ ForwardStep
    \/ ForwardEnd
    \/ BackwardStep
    \/ BackwardEnd
    \/ FindTarget
    \/ Emit
    \/ RangeCollect
    \/ RangeClose

SpecRange == InitRange /\ [][NextRange]_vars

RangeFirstDay == days_from_civil(fn_in.start.y, fn_in.start.m, fn_in.start.d)

RangeLastDay == days_from_civil(fn_in.end.y, fn_in.end.m, fn_in.end.d)

\* C17: a successful from_solar_date_range over start <= end returns a
\* closed array of days(end) - days(start) + 1 elements in ascending order,
\* element k being the conversion of an instant whose local date under the
\* caller's UTC offset is start + k days, whatever the offset; over
\* start > end it returns "[]" (given room for it).
C17_ElementsAreLocalDates ==
    Called
        => IF RangeFirstDay > RangeLastDay
           THEN fn_in.out_buf_len > 2
                    => fn_out[1] = [ret |-> 2, elements |-> <<>>, closed |-> TRUE]
           ELSE fn_out[1].ret >= 0
                    => /\ fn_out[1].closed
                       /\ Len(fn_out[1].elements) = RangeLastDay - RangeFirstDay + 1
                       /\ \A k \in 1 .. Len(fn_out[1].elements) :
                             DayNumber(cst_date_of(fn_out[1].elements[k].ts_ms,
                                                   fn_in.tz_offset_seconds))
                                = RangeFirstDay + k - 1

\* the same with UTC offsets under twelve hours only
RangeLocalDatesWest ==
    (Called /\ fn_in.tz_offset_seconds < 12 * 3600) => C17_ElementsAreLocalDates

\* a range of two days has been converted
RangeTwoDays ==
    /\ Called
    /\ fn_out[1].ret > 0
    /\ Len(fn_out[1].elements) = 2

(***************************************************************************)
(* Further properties of the detection functions.                          *)
(***************************************************************************)
\* the row of the priority table that the flags of event e select
PriorityRow(e) ==
    IF /\ e.pair_b - e.pair_a = 1
       /\ e.month_support = 1
       /\ (e.leading_present = 1 \/ e.severely_clashed = 0)
       /\ e.blocked = 0
    THEN 1
    ELSE IF (e.month_support = 1 \/ e.leading_present = 1) /\ e.blocked = 0 THEN 2
    ELSE IF e.blocked = 1 THEN 3
    ELSE 4

LargerOf(a, b) == IF a > b THEN a ELSE b

\* the status and confidence the priority table and the downgrade give e
TableOutcome(e) ==
    CASE PriorityRow(e) = 1 /\ e.severely_clashed = 1 ->
            <<"Hoa (suppressed by clash)",
              LargerOf(20, (IF e.leading_present = 1 THEN 95 ELSE 85) - 30)>>
      [] PriorityRow(e) = 1 /\ e.severely_clashed = 0 ->
            <<"Hoa (successful)", IF e.leading_present = 1 THEN 95 ELSE 85>>
      [] PriorityRow(e) = 2 -> <<"Hop (bound)", 65>>
      [] PriorityRow(e) = 3 -> <<"Blocked", 10>>
      [] PriorityRow(e) = 4 -> <<"Hop (bound)", 40>>

\* C22: every event of bazi_detect_transformations carries the status and
\* confidence of the first matching row of the priority table, a successful
\* result that is severely clashed being turned into "suppressed by clash"
\* with max(20, confidence - 30); the status is "Blocked" with confidence 10
\* exactly when the blocked flag is set, and an adjacent pair is never
\* blocked.
C22_PriorityTable ==
    (Called /\ fn_in.op = "bazi_detect_transformations")
        => \A e \in Reported :
              /\ <<e.status, e.confidence>> = TableOutcome(e)
              /\ (e.status = "Blocked" /\ e.confidence = 10) <=> (e.blocked = 1)
              /\ e.status = "Blocked" <=> e.blocked = 1
              /\ e.proximity_score = (IF e.pair_b - e.pair_a = 1 THEN 2 ELSE 1)
              /\ e.pair_b - e.pair_a = 1 => e.blocked = 0

\* one chart with a pair suppressed by a clash and a blocked pair
C22_Witness ==
    /\ Called
    /\ fn_in.op = "bazi_detect_transformations"
    /\ \E e \in Reported : e.status = "Hoa (suppressed by clash)" /\ e.confidence = 65
    /\ \E e \in Reported : e.status = "Blocked" /\ e.blocked = 1

\* the number of events of the call with unlimited capacity that are about
\* pillar pair p
EventsOfPair(p) ==
    Cardinality({k \in 1 .. TotalEvents :
                    /\ DetectWith(fn_in, Unlimited).results[k][2].pair_a = p[1]
                    /\ DetectWith(fn_in, Unlimited).results[k][2].pair_b = p[2]})

\* C28: bazi_detect_stem_combinations, bazi_detect_transformations and
\* bazi_detect_punishments produce at most one event per pillar pair and so
\* at most 6 events, and a call with max_results = 6 returns them all.
C28_SixSuffices ==
    (Called /\ fn_in.op # "bazi_detect_phuc_ngam")
        => /\ TotalEvents <= 6
           /\ \A p \in PillarPairs : EventsOfPair(p) <= 1
           /\ DetectWith(fn_in, 6).count = TotalEvents

\* C30: in every event of bazi_detect_transformations month_support = 1
\* implies leading_present = 1; the confidence is 95, 65, 40 or 10; a
\* "suppressed by clash" event has confidence 65, so the floor of 20 is
\* never what the downgrade yields.
C30_MonthSupportLeads ==
    (Called /\ fn_in.op = "bazi_detect_transformations")
        => \A e \in Reported :
              /\ e.month_support = 1 => e.leading_present = 1
              /\ e.confidence \in {95, 65, 40, 10}
              /\ e.status = "Hoa (suppressed by clash)" => e.confidence = 65

\* a month-supported pair whose target no other stem shows: the leading stem
\* is a hidden stem
C30_Witness ==
    /\ Called
    /\ fn_in.op = "bazi_detect_transformations"
    /\ \E e \in Reported :
          /\ e.month_support = 1
          /\ e.leading_present = 1
          /\ \A k \in 0 .. 3 :
                (k # e.pair_a /\ k # e.pair_b)
                    => STEM_ELEMENT[fn_in.pillars[k][0]] # e.target_element

(***************************************************************************)
(* What from_solar_date, from_solar_date_auto and from_solar_date_range    *)
(* acquire and release, statement by statement along every path.  Only the *)
(* control flow is kept: a test on data (too few new moons, no solstice,   *)
(* malloc returning NULL, a full buffer) may go either way.  The ledger    *)
(* holds the state of each buffer of the running from_solar_date (unset,   *)
(* null, live, freed), the allocations not yet freed, the state of the     *)
(* ephemeris and every misuse met: a free of a buffer that is not live, a  *)
(* use of one, an ephemeris call while it is not open.                     *)
(***************************************************************************)
MaxCalls == 3

NoHeap == [nm_ms |-> "unset", pts |-> "unset", periods |-> "unset"]

NoLedger ==
    [phase |-> "resources", heap |-> NoHeap, outstanding |-> 0, faults |-> {},
     ephe |-> "never", inits |-> 0, closes |-> 0, calls |-> 0, sn |-> 0]

\* malloc returned a buffer
acquire(s, buf) == [s EXCEPT !.heap[buf] = "live", !.outstanding = @ + 1]

\* malloc returned NULL
acquire_failed(s, buf) == [s EXCEPT !.heap[buf] = "null"]

\* free(buf); free(NULL) does nothing
release(s, buf) ==
    IF s.heap[buf] = "live" THEN [s EXCEPT !.heap[buf] = "freed", !.outstanding = @ - 1]
    ELSE IF s.heap[buf] = "null" THEN s
    ELSE [s EXCEPT !.faults = @ \cup {<<"free", buf, s.heap[buf]>>}]

\* a read or a write of buf
use(s, buf) ==
    IF s.heap[buf] = "live" THEN s ELSE [s EXCEPT !.faults = @ \cup {<<"use", buf, s.heap[buf]>>}]

\* if (!pts) { free(nm_ms); return -1; }
fail_pts(s) == release(s, "nm_ms")

\* if (!periods) { free(nm_ms); free(pts); return -1; }
fail_periods(s) == release(release(s, "nm_ms"), "pts")

\* an error return that leaves periods allocated
fail_all_but_periods(s) == release(release(s, "nm_ms"), "pts")

\* { free(nm_ms); free(pts); free(periods); return -1; } and lines 559-561
fail_all(s) == release(release(release(s, "nm_ms"), "pts"), "periods")

ephe_init(s) == [s EXCEPT !.ephe = "open", !.inits = @ + 1]

ephe_close(s) ==
    IF s.ephe = "open" THEN [s EXCEPT !.ephe = "closed", !.closes = @ + 1]
    ELSE [s EXCEPT !.faults = @ \cup {<<"close", s.ephe>>}, !.closes = @ + 1]

\* compute_new_moons or compute_solar_terms is called
ephe_used(s) ==
    IF s.ephe = "open" THEN s ELSE [s EXCEPT !.faults = @ \cup {<<"compute", s.ephe>>}]

ResourceCalls ==
    {[fn |-> "from_solar_date", days |-> 1], [fn |-> "from_solar_date_auto", days |-> 1]}
        \cup {[fn |-> "from_solar_date_range", days |-> n] : n \in 0 .. MaxCalls}

InitResources ==
    /\ fn_in \in ResourceCalls
    /\ fn_out = <<>>
    /\ pc = "call"
    /\ scan = NoScan
    /\ MachineIdle

\* the entry point returns v
ResReturn(s, v) ==
    /\ scan' = s
    /\ fn_out' = <<v>>
    /\ pc' = "returned"

\* from_solar_date returns sn to its caller
FsdReturn(s, sn) ==
    /\ scan' = [s EXCEPT !.sn = sn]
    /\ pc' = "r_ret"
    /\ UNCHANGED fn_out

\* from_solar_date is entered: its locals are new
FsdCall(s) ==
    /\ scan' = [s EXCEPT !.heap = NoHeap, !.calls = @ + 1]
    /\ pc' = "r_nm"
    /\ UNCHANGED fn_out

\* the entry of the three functions; lines 590-595 for an empty range
ResEnter ==
    /\ pc = "call"
    /\ IF fn_in.fn = "from_solar_date" THEN FsdCall(NoLedger)
       ELSE IF fn_in.fn = "from_solar_date_range" /\ fn_in.days = 0 THEN ResReturn(NoLedger, 2)
       ELSE scan' = NoLedger /\ pc' = "r_init" /\ UNCHANGED fn_out
    /\ UNCHANGED <<fn_in, machine_vars>>

\* lines 601 and 690
ResEpheInit ==
    /\ pc = "r_init"
    /\ scan' = ephe_init(scan)
    /\ pc' = "r_moons"
    /\ UNCHANGED <<fn_in, fn_out, machine_vars>>

\* lines 603-606 and 693-696
ResNewMoons ==
    /\ pc = "r_moons"
    /\ \E too_few \in BOOLEAN :
          IF too_few THEN ResReturn(ephe_close(ephe_used(scan)), -1)
          ELSE scan' = ephe_used(scan) /\ pc' = "r_terms" /\ UNCHANGED fn_out
    /\ UNCHANGED <<fn_in, machine_vars>>

\* lines 608-613 and 698-704
ResSolarTerms ==
    /\ pc = "r_terms"
    /\ \E none \in BOOLEAN :
          IF none THEN ResReturn(ephe_close(ephe_used(scan)), -1)
          ELSE scan' = ephe_used(scan) /\ pc' = "r_close" /\ UNCHANGED fn_out
    /\ UNCHANGED <<fn_in, machine_vars>>

\* lines 706-712: ephe_close and the call of from_solar_date; lines 615-624:
\* ephe_close and the opening bracket
ResEpheClose ==
    /\ pc = "r_close"
    /\ IF fn_in.fn = "from_solar_date_auto" THEN FsdCall(ephe_close(scan))
       ELSE \E full \in BOOLEAN :
               IF full THEN ResReturn(ephe_close(scan), -1)
               ELSE scan' = ephe_close(scan) /\ pc' = "r_loop" /\ UNCHANGED fn_out
    /\ UNCHANGED <<fn_in, machine_vars>>

\* lines 630-637, and 652-657 when the loop has ended
ResLoop ==
    /\ pc = "r_loop"
    /\ IF scan.calls < fn_in.days THEN FsdCall(scan)
       ELSE \E v \in {-1, 2} : ResReturn(scan, v)
    /\ UNCHANGED <<fn_in, machine_vars>>

\* lines 329-346
ResMallocNm ==
    /\ pc = "r_nm"
    /\ \/ FsdReturn(scan, -1)
       \/ FsdReturn(acquire_failed(scan, "nm_ms"), -1)
       \/ scan' = use(acquire(scan, "nm_ms"), "nm_ms") /\ pc' = "r_pts" /\ UNCHANGED fn_out
    /\ UNCHANGED <<fn_in, machine_vars>>

\* lines 348-373
ResMallocPts ==
    /\ pc = "r_pts"
    /\ \/ FsdReturn(fail_pts(acquire_failed(scan, "pts")), -1)
       \/ scan' = use(acquire(scan, "pts"), "pts") /\ pc' = "r_periods" /\ UNCHANGED fn_out
    /\ UNCHANGED <<fn_in, machine_vars>>

\* lines 375-399
ResMallocPeriods ==
    /\ pc = "r_periods"
    /\ \/ FsdReturn(fail_periods(acquire_failed(scan, "periods")), -1)
       \/ /\ scan' = use(use(use(acquire(scan, "periods"), "nm_ms"), "periods"), "pts")
          /\ pc' = "r_z11"
          /\ UNCHANGED fn_out
    /\ UNCHANGED <<fn_in, machine_vars>>

\* lines 401-433
ResFindZ11 ==
    /\ pc = "r_z11"
    /\ \/ FsdReturn(fail_all(use(scan, "pts")), -1)
       \/ scan' = use(scan, "pts") /\ pc' = "r_zi" /\ UNCHANGED fn_out
    /\ UNCHANGED <<fn_in, machine_vars>>

\* lines 435-474
ResFindZi ==
    /\ pc = "r_zi"
    /\ \/ FsdReturn(fail_all(use(scan, "periods")), -1)
       \/ scan' = use(scan, "periods") /\ pc' = "r_target" /\ UNCHANGED fn_out
    /\ UNCHANGED <<fn_in, machine_vars>>

\* lines 476-563
ResFindTarget ==
    /\ pc = "r_target"
    /\ \/ FsdReturn(fail_all(use(scan, "periods")), -1)
       \/ FsdReturn(fail_all(use(scan, "periods")), 1)
    /\ UNCHANGED <<fn_in, machine_vars>>

\* lines 638-650 and 713: the caller has the result of from_solar_date
ResResume ==
    /\ pc = "r_ret"
    /\ IF fn_in.fn # "from_solar_date_range" THEN ResReturn(scan, scan.sn)
       ELSE IF scan.sn < 0 THEN ResReturn(scan, -1)
       ELSE \E full \in BOOLEAN :
               IF full THEN ResReturn(scan, -1)
               ELSE scan' = scan /\ pc' = "r_loop" /\ UNCHANGED fn_out
    /\ UNCHANGED <<fn_in, machine_vars>>

NextResources ==
    \/ ResEnter
    \/ ResEpheInit
    \/ ResNewMoons
    \/ ResSolarTerms
    \/ ResEpheClose
    \/ ResLoop
    \/ ResMallocNm
    \/ ResMallocPts
    \/ ResMallocPeriods
    \/ ResFindZ11
    \/ ResFindZi
    \/ ResFindTarget
    \/ ResResume

SpecResources == InitResources /\ [][NextResources]_vars

InFromSolarDate == pc \in {"r_nm", "r_pts", "r_periods", "r_z11", "r_zi", "r_target"}

\* C29: on every path every resource acquired is released exactly once
\* before the return: when from_solar_date has returned, each of nm_ms, pts
\* and periods it was given by malloc is freed and none was freed twice or
\* used after its free; from_solar_date_auto and from_solar_date_range have
\* called ephe_close once after ephe_init when they return, and nothing is
\* computed from the ephemeris after ephe_close.
C29_ReleasedOnEveryPath ==
    pc # "call"
        => /\ scan.faults = {}
           /\ scan.closes <= scan.inits /\ scan.inits <= 1
           /\ scan.ephe = "open" <=> pc \in {"r_moons", "r_terms", "r_close"}
           /\ InFromSolarDate => scan.outstanding = Cardinality({b \in DOMAIN scan.heap : scan.heap[b] = "live"})
           /\ pc \in {"r_ret", "r_loop", "returned"}
                 => /\ scan.outstanding = 0
                    /\ \A b \in DOMAIN scan.heap : scan.heap[b] # "live"
           /\ pc = "returned"
                 => /\ scan.closes = scan.inits
                    /\ scan.inits = 1 <=> (fn_in.fn # "from_solar_date" /\ fn_in.days > 0)

\* a range of two days that ran to its end: one init, one close, two calls
\* of from_solar_date, the buffers of the last one freed
C29_Witness ==
    /\ pc = "returned"
    /\ fn_in.fn = "from_solar_date_range"
    /\ scan.calls = MaxCalls
    /\ fn_out[1] = 2
    /\ scan.inits = 1
    /\ scan.closes = 1
    /\ \A b \in DOMAIN scan.heap : scan.heap[b] = "freed"

=============================================================================
